---- MODULE Spec2Model ----
(***************************************************************************)
(* Model of the clinical-driftops policy gate (the policy_gate.py module   *)
(* that conftest.py installs as src/ops/policy_gate.py), of the drift      *)
(* detector (monitors/drift_detector.py), of the performance metrics       *)
(* (src/eval/performance_metrics.py) and of the validator CLI              *)
(* (src/api/validate_cli.py).                                              *)
(*                                                                         *)
(* Conventions                                                             *)
(*  - A Python value is a tagged tuple: <<"None">>, <<"num", v>>,          *)
(*    <<"bool", b>>, <<"str", chars>>, <<"nan">>, <<"list", seq>>,         *)
(*    <<"dict", d>> where d is a function whose DOMAIN is the key set.     *)
(*  - Every number is fixed point in hundredths: 0.20 is 20, 0.75 is 75,   *)
(*    the integer 2 is 200.                                                *)
(*  - A string whose characters matter (a column name) is a tuple of       *)
(*    one-character strings.                                               *)
(*  - A file is <<"absent">>, <<"garbage">> (exists, does not parse) or    *)
(*    <<"text", v>> (exists and parses to the Python value v).             *)
(***************************************************************************)
EXTENDS Integers, Sequences, FiniteSets, TLC

VARIABLES
    pc,          \* "setup" while the workspace is arranged, "done" after a run
    nWrites,     \* how many input artifacts were placed so far
    policyFile,  \* policy.yaml
    perfFile,    \* reports/performance_metrics.json
    shapFile,    \* reports/shap_top_features.json
    fairFile,    \* reports/fairness_summary.json
    baseFile,    \* data/data_prepared_baseline.csv
    currFile,    \* data/data_prepared_current.csv
    gateFile,    \* reports/policy_gate_result.json; <<"truncated">> or <<"partial", v>>
                 \* while it is being written
    ret,         \* how policy_gate.main ended: <<"none">>, <<"returned", rc>>, <<"raised", exc>>;
                 \* <<"writing", document, rc>> between the open and the close of the result
    exitCode,    \* exit status of `python src/ops/policy_gate.py`, -1 before a run
    driftCols,   \* the local `cols` of _drift_summary in the last run
    ignoreArg,   \* the ignore_cols argument handed to compare_dataframes
    cmp,         \* what compare_dataframes last computed: <<"none">> or <<"summary", r>>
    cmp2,        \* what a second call on the same inputs computed, <<"none">> before it
    call,        \* the last call of a statistics routine with its arguments and result
    seen,        \* what a concurrent reader of policy_gate_result.json last observed
    cli,         \* the validator CLI run: <<"none">>, <<"exited", code, files>> or
                 \* <<"returned", rc, files, live_validation, predictions, gate module>>
    reports,     \* the other files of reports/: live_validation.json, drift_history.json,
                 \* evidence_digest.json, and the names of the files kept without content
    now          \* the clock the runs read, in whole ticks

vars == <<pc, nWrites, policyFile, perfFile, shapFile, fairFile, baseFile, currFile,
          gateFile, ret, exitCode, driftCols, ignoreArg, cmp, cmp2, call, seen, cli, reports, now>>

(***************************************************************************)
(* Bounds of the model                                                     *)
(***************************************************************************)
\* at most this many input artifacts are placed in the workspace before a run
MaxWrites == 2
\* n_top_features in shap_top_features.json ranges over 0..MaxTop
MaxTop == 3
\* at most this many columns in a dataset built column by column
MaxCols == 2

(***************************************************************************)
(* Python values                                                           *)
(***************************************************************************)

PyNone == <<"None">>
PyNaN == <<"nan">>
PyNum(v) == <<"num", v>>
PyBool(b) == <<"bool", b>>
PyStr(s) == <<"str", s>>
PyList(s) == <<"list", s>>
PyDict(d) == <<"dict", d>>
EmptyDict == [k \in {} |-> PyNone]

IsDict(x) == x[1] = "dict"
IsNone(x) == x[1] = "None"

\* dict.get(k, d) on a value that is a dict
DictGet(x, k, d) == IF k \in DOMAIN x[2] THEN x[2][k] ELSE d

\* `k in x` for a dict
HasKey(x, k) == k \in DOMAIN x[2]

\* Python truthiness, bool(x)
Truthy(x) ==
    CASE x[1] = "None" -> FALSE
      [] x[1] = "num"  -> x[2] # 0
      [] x[1] = "bool" -> x[2]
      [] x[1] = "nan"  -> TRUE
      [] x[1] = "str"  -> x[2] # <<>>
      [] x[1] = "list" -> x[2] # <<>>
      [] x[1] = "dict" -> DOMAIN x[2] # {}

(***************************************************************************)
(* Strings as character tuples                                             *)
(***************************************************************************)
LowerChar(c) ==
    CASE c = "A" -> "a" [] c = "B" -> "b" [] c = "C" -> "c" [] c = "D" -> "d"
      [] c = "E" -> "e" [] c = "F" -> "f" [] c = "G" -> "g" [] c = "H" -> "h"
      [] c = "I" -> "i" [] c = "J" -> "j" [] c = "K" -> "k" [] c = "L" -> "l"
      [] c = "M" -> "m" [] c = "N" -> "n" [] c = "O" -> "o" [] c = "P" -> "p"
      [] c = "Q" -> "q" [] c = "R" -> "r" [] c = "S" -> "s" [] c = "T" -> "t"
      [] c = "U" -> "u" [] c = "V" -> "v" [] c = "W" -> "w" [] c = "X" -> "x"
      [] c = "Y" -> "y" [] c = "Z" -> "z" [] OTHER -> c

RECURSIVE Lower(_)
Lower(s) == IF s = <<>> THEN <<>> ELSE <<LowerChar(Head(s))>> \o Lower(Tail(s))

EndsWith(s, suf) ==
    /\ Len(s) >= Len(suf)
    /\ SubSeq(s, Len(s) - Len(suf) + 1, Len(s)) = suf

Contains(s, sub) ==
    \E i \in 1..(Len(s) - Len(sub) + 1) : SubSeq(s, i, i + Len(sub) - 1) = sub

RECURSIVE LowerAll(_)
LowerAll(names) ==
    IF names = <<>> THEN {} ELSE {Lower(Head(names))} \cup LowerAll(Tail(names))

(***************************************************************************)
(* Files                                                                   *)
(***************************************************************************)
Absent == <<"absent">>
Garbage == <<"garbage">>
Text(v) == <<"text", v>>
Exists(f) == f[1] # "absent"

\* _load_json(p, d): the parsed document, d when reading or parsing fails
_load_json(f, d) == IF f[1] = "text" THEN f[2] ELSE d

\* float(x) of a string: digits with at most one point and at most two decimals
\* parse to hundredths; any other string of the model raises ValueError
IsDigit(c) == c \in {"0", "1", "2", "3", "4", "5", "6", "7", "8", "9"}
DigitVal(c) ==
    CASE c = "0" -> 0 [] c = "1" -> 1 [] c = "2" -> 2 [] c = "3" -> 3 [] c = "4" -> 4
      [] c = "5" -> 5 [] c = "6" -> 6 [] c = "7" -> 7 [] c = "8" -> 8 [] c = "9" -> 9

RECURSIVE DigitsVal(_)
DigitsVal(s) == IF s = <<>> THEN 0 ELSE 10 * DigitsVal(SubSeq(s, 1, Len(s) - 1)) + DigitVal(s[Len(s)])

AllDigits(s) == s # <<>> /\ \A i \in 1..Len(s) : IsDigit(s[i])

StrIsFloat(s) ==
    \/ AllDigits(s)
    \/ \E i \in 2..(Len(s) - 1) :
          /\ s[i] = "."
          /\ AllDigits(SubSeq(s, 1, i - 1))
          /\ AllDigits(SubSeq(s, i + 1, Len(s)))
          /\ Len(s) - i <= 2

StrToFloat(s) ==
    IF AllDigits(s) THEN 100 * DigitsVal(s)
    ELSE LET i == CHOOSE j \in 2..(Len(s) - 1) : s[j] = "."
             frac == SubSeq(s, i + 1, Len(s))
         IN  100 * DigitsVal(SubSeq(s, 1, i - 1))
               + (IF Len(frac) = 1 THEN 10 * DigitsVal(frac) ELSE DigitsVal(frac))

\* _safe_float(x, d=None): None for None, float(x) otherwise, d when float(x) raises
_safe_float(x) ==
    CASE x[1] = "None" -> PyNone
      [] x[1] = "num"  -> x
      [] x[1] = "nan"  -> x
      [] x[1] = "bool" -> PyNum(IF x[2] THEN 100 ELSE 0)
      [] x[1] = "str"  -> IF StrIsFloat(x[2]) THEN PyNum(StrToFloat(x[2])) ELSE PyNone
      [] OTHER         -> PyNone

\* isinstance(x, (int, float)); bool is a subclass of int
IsIntOrFloat(x) == x[1] \in {"num", "nan", "bool"}

\* int(x) of a non-negative number: truncation
PyInt(x) ==
    CASE x[1] = "num"  -> PyNum((x[2] \div 100) * 100)
      [] x[1] = "bool" -> PyNum(IF x[2] THEN 100 ELSE 0)

(***************************************************************************)
(* Datasets: a frame is a sequence of columns, a column is                 *)
(* [name, numeric, sample]. `numeric` is pandas' is_numeric_dtype of the   *)
(* column; `sample` is the sequence of the column's values.                *)
(***************************************************************************)
Col(n, num, s) == [name |-> n, numeric |-> num, sample |-> s]

RECURSIVE ColumnNames(_)
ColumnNames(frame) ==
    IF frame = <<>> THEN {} ELSE {Head(frame).name} \cup ColumnNames(Tail(frame))

\* frame[c]: the column named c
ColumnOf(frame, c) == frame[CHOOSE j \in 1..Len(frame) : frame[j].name = c]

\* a value that np.isfinite rejects (nan, inf); the finite values are naturals
np_nan == -1

\* x[np.isfinite(x)]
RECURSIVE Finite(_)
Finite(x) ==
    IF x = <<>> THEN <<>>
    ELSE IF Head(x) = np_nan THEN Finite(Tail(x)) ELSE <<Head(x)>> \o Finite(Tail(x))

\* len(x[np.isfinite(x)]) == 0
NoFinite(s) == Finite(s) = <<>>

\* the values of x in ascending order (a stable insertion sort)
RECURSIVE Insert(_, _)
Insert(v, s) ==
    IF s = <<>> THEN <<v>>
    ELSE IF v < Head(s) THEN <<v>> \o s ELSE <<Head(s)>> \o Insert(v, Tail(s))

RECURSIVE Sorted(_)
Sorted(x) == IF x = <<>> THEN <<>> ELSE Insert(x[Len(x)], Sorted(SubSeq(x, 1, Len(x) - 1)))

\* np.nanpercentile(x, q) of a non-empty finite sample, in hundredths: linear
\* interpolation between the order statistics around position q/100 * (n - 1)
nanpercentile(x, q) ==
    LET s == Sorted(x)
        n == Len(s)
        pos == q * (n - 1)
        lo == (pos \div 100) + 1
        hi == IF lo < n THEN lo + 1 ELSE n
    IN  100 * s[lo] + (pos % 100) * (s[hi] - s[lo])

\* np.linspace(p1, p99, bins + 1)[k], k = 0..bins, in units of 1 / (100 * bins)
Cut(p1, p99, bins, k) == bins * p1 + k * (p99 - p1)

\* np.searchsorted(sorted x, edge, side): the number of values below the edge
\* ("left") or not above it ("right"); values are scaled to the unit of the edges
CountBelow(x, edge, scale, side) ==
    Cardinality({i \in 1..Len(x) :
                    IF side = "left" THEN scale * x[i] < edge ELSE scale * x[i] <= edge})

\* np.histogram(x, bins=cuts): bin k (1..bins) is [cut k-1, cut k), the last one
\* closed on the right; values outside the edges are dropped
histogram(x, p1, p99, bins) ==
    LET cum(k) == CountBelow(x, Cut(p1, p99, bins, k), 100 * bins,
                             IF k = bins THEN "right" ELSE "left")
    IN  [k \in 1..bins |-> cum(k) - cum(k - 1)]

RECURSIVE SumTo(_, _)
SumTo(f, n) == IF n = 0 THEN 0 ELSE f[n] + SumTo(f, n - 1)

\* natural logarithms of the counts a small sample can give, in ten-thousandths
LnTable == <<0, 6931, 10986, 13863, 16094, 17918, 19459, 20794>>
Ln(n) == LnTable[n]

\* -ln(1e-6), in ten-thousandths
LnClip == 138155

\* np.clip(hist / max(hist.sum(), 1), 1e-6, 1): a proportion <<n, d>>; n = 0
\* stands for the clipped 1e-6
Ratios(hist, bins) ==
    LET total == IF SumTo(hist, bins) >= 1 THEN SumTo(hist, bins) ELSE 1
    IN  [k \in 1..bins |-> <<hist[k], total>>]

\* (a - e) * ln(a / e) for two clipped proportions, in ten-thousandths
PsiTerm(a, e) ==
    CASE a[1] = 0 /\ e[1] = 0 -> 0
      [] a[1] = 0 /\ e[1] > 0 -> (e[1] * (LnClip + Ln(e[1]) - Ln(e[2]))) \div e[2]
      [] a[1] > 0 /\ e[1] = 0 -> (a[1] * (LnClip + Ln(a[1]) - Ln(a[2]))) \div a[2]
      [] OTHER ->
            ((a[1] * e[2] - e[1] * a[2]) * (Ln(a[1]) + Ln(e[2]) - Ln(e[1]) - Ln(a[2])))
                \div (a[2] * e[2])

\* bins: int = 10
DefaultBins == 10

\* np.sum((a_ratio - e_ratio) * np.log(a_ratio / e_ratio)), in hundredths
PsiSum(a_ratio, e_ratio, bins) ==
    SumTo([k \in 1..bins |-> PsiTerm(a_ratio[k], e_ratio[k])], bins) \div 100

\* _psi that answers nan when a sample has no finite value
_psi_EmptyGivesNaN(expected, actual, bins) ==
    LET e == Finite(expected)
        a == Finite(actual)
    IN  IF Len(e) = 0 \/ Len(a) = 0 THEN np_nan
        ELSE LET p1 == nanpercentile(e, 1)
                 p99 == nanpercentile(e, 99)
             IN  PsiSum(Ratios(histogram(a, p1, p99, bins), bins),
                        Ratios(histogram(e, p1, p99, bins), bins), bins)

\* _psi whose actual proportions are counts over len(actual), not over the binned total
_psi_ActualOverLen(expected, actual, bins) ==
    LET e == Finite(expected)
        a == Finite(actual)
    IN  IF Len(e) = 0 \/ Len(a) = 0 THEN 0
        ELSE LET p1 == nanpercentile(e, 1)
                 p99 == nanpercentile(e, 99)
                 a_hist == histogram(a, p1, p99, bins)
             IN  PsiSum([k \in 1..bins |-> <<a_hist[k], Len(a)>>],
                        Ratios(histogram(e, p1, p99, bins), bins), bins)

\* _psi(expected, actual, bins), in hundredths. Every clipped proportion lies in
\* [1e-6, 1], so the sum is finite and `float(psi) if np.isfinite(psi) else 0.0`
\* returns it.
_psi(expected, actual, bins) ==
    LET e == Finite(expected)
        a == Finite(actual)
    IN  IF Len(e) = 0 \/ Len(a) = 0 THEN 0
        ELSE LET p1 == nanpercentile(e, 1)
                 p99 == nanpercentile(e, 99)
                 psi == PsiSum(Ratios(histogram(a, p1, p99, bins), bins),
                               Ratios(histogram(e, p1, p99, bins), bins), bins)
             IN  IF psi # np_nan THEN psi ELSE 0

\* the number of values of x that are <= v
CountLe(x, v) == Cardinality({i \in 1..Len(x) : x[i] <= v})

RECURSIVE Values(_)
Values(x) == IF x = <<>> THEN {} ELSE {Head(x)} \cup Values(Tail(x))

AbsDiff(m, n) == IF m >= n THEN m - n ELSE n - m

SetMax(S) == CHOOSE m \in S : \A n \in S : m >= n

\* ks_2samp(xb, xa).statistic for two non-empty finite samples, as the fraction
\* <<num, den>>: the largest distance between the two empirical CDFs
KsFraction(xb, xa) ==
    << SetMax({AbsDiff(CountLe(xb, v) * Len(xa), CountLe(xa, v) * Len(xb)) :
                  v \in Values(xb) \cup Values(xa)}),
       Len(xb) * Len(xa) >>

\* ks_2samp(xb, xa).statistic, in hundredths
ks_2samp(xb, xa) == (100 * KsFraction(xb, xa)[1]) \div KsFraction(xb, xa)[2]

RECURSIVE SeqMax(_)
SeqMax(s) ==
    IF Len(s) = 1 THEN s[1]
    ELSE LET m == SeqMax(Tail(s)) IN IF s[1] >= m THEN s[1] ELSE m

\* MaxOrNone that keeps the value of the last feature
MaxOrNone_Last(vals) == IF vals = <<>> THEN PyNone ELSE PyNum(vals[Len(vals)])

\* float(np.nanmax(vals)) if vals else None
MaxOrNone(vals) == IF vals = <<>> THEN PyNone ELSE PyNum(SeqMax(vals))

(***************************************************************************)
(* Column selection                                                        *)
(***************************************************************************)
S_id == <<"_", "i", "d">>
S_time == <<"t", "i", "m", "e">>
S_date == <<"d", "a", "t", "e">>
S_default == <<"d", "e", "f", "a", "u", "l", "t">>
S_label == <<"l", "a", "b", "e", "l">>
S_y_true == <<"y", "_", "t", "r", "u", "e">>
S_y_pred == <<"y", "_", "p", "r", "e", "d">>
S_y_score == <<"y", "_", "s", "c", "o", "r", "e">>

\* looks_like_id_or_time without the lower-casing
looks_like_id_or_time_CaseSensitive(c) ==
    EndsWith(c, S_id) \/ Contains(c, S_time) \/ Contains(c, S_date)

\* looks / looks_like_id_or_time
looks_like_id_or_time(c) ==
    LET cl == Lower(c)
    IN  EndsWith(cl, S_id) \/ Contains(cl, S_time) \/ Contains(cl, S_date)

\* auto = {"label","y_true","y_pred","y_score"} of _drift_summary
auto == {S_label, S_y_true, S_y_pred, S_y_score}

\* the `for c in base.columns` loop of _drift_summary, over the columns left
RECURSIVE GateCols(_, _, _)
GateCols(left, curr, ign) ==
    IF left = <<>> THEN <<>>
    ELSE LET c == Head(left).name
             rest == GateCols(Tail(left), curr, ign)
         IN  IF c \notin ColumnNames(curr) THEN rest
             ELSE IF looks_like_id_or_time(c) \/ Lower(c) \in ign \/ Lower(c) \in auto
                  THEN rest
             ELSE IF Head(left).numeric /\ ColumnOf(curr, c).numeric
                  THEN <<c>> \o rest
             ELSE rest

\* the `for c in baseline.columns` loop of compare_dataframes
RECURSIVE CompareCols(_, _, _)
CompareCols(left, curr, ign) ==
    IF left = <<>> THEN <<>>
    ELSE LET c == Head(left).name
             rest == CompareCols(Tail(left), curr, ign)
         IN  IF c \notin ColumnNames(curr) THEN rest
             ELSE IF looks_like_id_or_time(c) \/ Lower(c) \in ign THEN rest
             ELSE IF Head(left).numeric /\ ColumnOf(curr, c).numeric
                  THEN <<c>> \o rest
             ELSE rest

(***************************************************************************)
(* policy_gate: a step that may raise yields [raised, exc, ...]            *)
(***************************************************************************)
NoDrift == [raised |-> FALSE, exc |-> "", max_psi |-> PyNone, max_ks |-> PyNone, cols |-> <<>>]
DriftRaise(e) == [raised |-> TRUE, exc |-> e, max_psi |-> PyNone, max_ks |-> PyNone, cols |-> <<>>]

\* the `for c in cols` loop of _drift_summary: the psi values collected
RECURSIVE PsiVals(_, _, _)
PsiVals(cols, base, curr) ==
    IF cols = <<>> THEN <<>>
    ELSE LET xb == ColumnOf(base, Head(cols)).sample
             xa == ColumnOf(curr, Head(cols)).sample
             rest == PsiVals(Tail(cols), base, curr)
         IN  IF NoFinite(xb) \/ NoFinite(xa) THEN rest
             ELSE <<_psi(Finite(xb), Finite(xa), DefaultBins)>> \o rest

\* the same loop: the ks values collected
RECURSIVE KsVals(_, _, _)
KsVals(cols, base, curr) ==
    IF cols = <<>> THEN <<>>
    ELSE LET xb == ColumnOf(base, Head(cols)).sample
             xa == ColumnOf(curr, Head(cols)).sample
             rest == KsVals(Tail(cols), base, curr)
         IN  IF NoFinite(xb) \/ NoFinite(xa) THEN rest
             ELSE <<ks_2samp(Finite(xb), Finite(xa))>> \o rest

\* _drift_summary(policy) over the two dataset files
_drift_summary(policy, bf, cf) ==
    IF ~Exists(bf) \/ ~Exists(cf) THEN NoDrift
    ELSE IF bf[1] # "text" \/ cf[1] # "text" THEN DriftRaise("ParserError")
    ELSE IF ~IsDict(policy) THEN DriftRaise("AttributeError")
    ELSE LET dg == DictGet(policy, "drift", PyDict(EmptyDict))
         IN  IF ~IsDict(dg) THEN DriftRaise("AttributeError")
             ELSE LET ic == DictGet(dg, "ignore_cols", PyList(<<>>))
                  IN  IF ic[1] # "list" THEN DriftRaise("TypeError")
                      ELSE LET base == bf[2]
                               curr == cf[2]
                               cols == GateCols(base, curr, LowerAll(ic[2]))
                           IN  IF cols = <<>> THEN NoDrift
                               ELSE [raised |-> FALSE, exc |-> "",
                                     max_psi |-> MaxOrNone(PsiVals(cols, base, curr)),
                                     max_ks |-> MaxOrNone(KsVals(cols, base, curr)),
                                     cols |-> cols]

\* bool(shap and ("n_top_features" in shap or "features" in shap)) for a dict
ShapPresent(shap) ==
    Truthy(shap) /\ (HasKey(shap, "n_top_features") \/ HasKey(shap, "features"))

\* _observed(policy)
_observed(policy, pf, sf, ff, bf, cf) ==
    LET perf == _load_json(pf, PyDict(EmptyDict))
        shap == _load_json(sf, PyDict(EmptyDict))
        fair == _load_json(ff, PyDict(EmptyDict))
        ntop == DictGet(shap, "n_top_features", PyNone)
        Rest(drift) ==
            IF drift.raised THEN [raised |-> TRUE, exc |-> drift.exc, cols |-> <<>>]
            ELSE IF ~IsDict(perf) \/ ~IsDict(fair) \/ ~IsDict(shap)
                 THEN [raised |-> TRUE, exc |-> "AttributeError", cols |-> <<>>]
            ELSE IF ntop = PyNaN THEN [raised |-> TRUE, exc |-> "ValueError", cols |-> <<>>]
            ELSE [raised |-> FALSE, exc |-> "", cols |-> drift.cols,
                  obs |-> [max_psi |-> drift.max_psi,
                           max_ks |-> drift.max_ks,
                           auroc |-> _safe_float(DictGet(perf, "auroc", PyNone)),
                           auprc |-> _safe_float(DictGet(perf, "auprc", PyNone)),
                           log_loss |-> _safe_float(DictGet(perf, "log_loss", PyNone)),
                           parity_gap |-> _safe_float(DictGet(fair, "parity_gap", PyNone)),
                           shap_artifact_present |-> PyBool(ShapPresent(shap)),
                           top_features_detected |->
                               IF IsIntOrFloat(ntop) THEN PyInt(ntop) ELSE PyNone]]
    IN  CHOOSE r \in {Rest(drift) : drift \in {_drift_summary(policy, bf, cf)}} : TRUE

\* OpHolds with "<" evaluated as "<="
OpHolds_LtIsLe(value, op, thr) ==
    IF value = PyNaN THEN FALSE
    ELSE CASE op = "<"  -> value[2] <= thr[2]
           [] op = "<=" -> value[2] <= thr[2]
           [] op = ">=" -> value[2] >= thr[2]
           [] op = "==" -> value[2] = thr[2]
           [] OTHER     -> FALSE

\* the comparison chain of _check; every comparison with NaN is False
OpHolds(value, op, thr) ==
    IF value = PyNaN THEN FALSE
    ELSE CASE op = "<"  -> value[2] < thr[2]
           [] op = "<=" -> value[2] <= thr[2]
           [] op = ">=" -> value[2] >= thr[2]
           [] op = "==" -> value[2] = thr[2]
           [] OTHER     -> FALSE

\* _check without the `value is None` guard: a missing value evaluates to FAIL
_check_NoneFails(name, value, op, thr) ==
    [name |-> name, value |-> value, op |-> op, threshold |-> thr,
     result |-> IF value # PyNone /\ OpHolds(value, op, thr) THEN "PASS" ELSE "FAIL"]

\* _check(name, value, op, thr)
_check(name, value, op, thr) ==
    IF value = PyNone
    THEN [name |-> name, value |-> value, op |-> op, threshold |-> thr, result |-> "SKIP"]
    ELSE [name |-> name, value |-> value, op |-> op, threshold |-> thr,
          result |-> IF OpHolds(value, op, thr) THEN "PASS" ELSE "FAIL"]

\* StatusOf with a SKIP counted as a failure
RECURSIVE StatusOf_SkipFails(_)
StatusOf_SkipFails(checks) ==
    IF checks = <<>> THEN "PASS"
    ELSE IF Head(checks).result # "PASS" THEN "FAIL"
    ELSE StatusOf_SkipFails(Tail(checks))

\* StatusOf decided by the first check that is not a SKIP
RECURSIVE StatusOf_FirstDecides(_)
StatusOf_FirstDecides(checks) ==
    IF checks = <<>> THEN "PASS"
    ELSE IF Head(checks).result = "SKIP" THEN StatusOf_FirstDecides(Tail(checks))
    ELSE Head(checks).result

\* the `for c in checks` loop of main, with its break
RECURSIVE StatusOf(_)
StatusOf(checks) ==
    IF checks = <<>> THEN "PASS"
    ELSE IF Head(checks).result = "FAIL" THEN "FAIL"
    ELSE StatusOf(Tail(checks))

\* policy = yaml.safe_load(...) if pol.exists() else {}
LoadPolicy(f) == IF Exists(f) THEN f[2] ELSE PyDict(EmptyDict)

\* BuildChecks with the drift.ks threshold read from the psi_fail key
BuildChecks_KsUsesPsiKey(policy, obs) ==
    LET d0 == DictGet(policy, "drift", PyDict(EmptyDict))
        drift == IF IsDict(d0) THEN d0 ELSE PyDict(EmptyDict)
        perf == DictGet(policy, "performance", PyDict(EmptyDict))
        fair == DictGet(policy, "fairness", PyDict(EmptyDict))
        expl == DictGet(policy, "explainability", PyDict(EmptyDict))
    IN  << _check("drift.psi", obs.max_psi, "<", DictGet(drift, "psi_fail", PyNum(20))),
           _check("drift.ks", obs.max_ks, "<", DictGet(drift, "psi_fail", PyNum(20))),
           _check("performance.auroc", obs.auroc, ">=", DictGet(perf, "min_auroc", PyNum(75))),
           _check("performance.auprc", obs.auprc, ">=", DictGet(perf, "min_auprc", PyNum(20))),
           _check("fairness.parity_gap", obs.parity_gap, "<=",
                  DictGet(fair, "parity_gap_fail", PyNum(5))),
           _check("explainability.shap_artifact_present",
                  PyBool(Truthy(obs.shap_artifact_present)), "==",
                  PyBool(Truthy(DictGet(expl, "require_shap_artifact", PyBool(TRUE))))),
           _check("explainability.top_features_min", obs.top_features_detected, ">=",
                  PyInt(DictGet(expl, "top_features_min", PyNum(200)))) >>

\* the checks main builds from the policy and the observed record
BuildChecks(policy, obs) ==
    LET d0 == DictGet(policy, "drift", PyDict(EmptyDict))
        drift == IF IsDict(d0) THEN d0 ELSE PyDict(EmptyDict)
        perf == DictGet(policy, "performance", PyDict(EmptyDict))
        fair == DictGet(policy, "fairness", PyDict(EmptyDict))
        expl == DictGet(policy, "explainability", PyDict(EmptyDict))
    IN  << _check("drift.psi", obs.max_psi, "<", DictGet(drift, "psi_fail", PyNum(20))),
           _check("drift.ks", obs.max_ks, "<", DictGet(drift, "ks_fail", PyNum(20))),
           _check("performance.auroc", obs.auroc, ">=", DictGet(perf, "min_auroc", PyNum(75))),
           _check("performance.auprc", obs.auprc, ">=", DictGet(perf, "min_auprc", PyNum(20))),
           _check("fairness.parity_gap", obs.parity_gap, "<=",
                  DictGet(fair, "parity_gap_fail", PyNum(5))),
           _check("explainability.shap_artifact_present",
                  PyBool(Truthy(obs.shap_artifact_present)), "==",
                  PyBool(Truthy(DictGet(expl, "require_shap_artifact", PyBool(TRUE))))),
           _check("explainability.top_features_min", obs.top_features_detected, ">=",
                  PyInt(DictGet(expl, "top_features_min", PyNum(200)))) >>

\* ReturnCode that reports success whatever the status
ReturnCode_AlwaysZero(status) == 0

\* 0 if status == "PASS" else 1
ReturnCode(status) == IF status = "PASS" THEN 0 ELSE 1

Raised(e) == [raised |-> TRUE, exc |-> e, cols |-> <<>>]

\* main(): what it writes and returns, or the exception it lets through
main(polf, pf, sf, ff, bf, cf) ==
    IF polf = Garbage THEN Raised("YAMLError")
    ELSE LET policy == LoadPolicy(polf)
             Result(o, checks) ==
                 LET status == StatusOf(checks)
                 IN  [raised |-> FALSE, exc |-> "", cols |-> o.cols,
                      out |-> [status |-> status, policy |-> policy, observed |-> o.obs,
                               checks |-> checks,
                               notes |-> IF status = "PASS"
                                         THEN "Gate passed. All observed values within policy limits."
                                         ELSE "Gate failed. One or more checks exceeded policy limits."],
                      rc |-> ReturnCode(status)]
             Evaluate(o) ==
                 IF o.raised THEN Raised(o.exc)
                 ELSE IF ~IsDict(policy) THEN Raised("AttributeError")
                 ELSE IF \E g \in {"performance", "fairness", "explainability"} :
                            ~IsDict(DictGet(policy, g, PyDict(EmptyDict)))
                      THEN Raised("AttributeError")
                 ELSE CHOOSE r \in {Result(o, checks) : checks \in {BuildChecks(policy, o.obs)}} : TRUE
         IN  CHOOSE r \in {Evaluate(o) : o \in {_observed(policy, pf, sf, ff, bf, cf)}} : TRUE

\* raise SystemExit(main()): the return code, or 1 for an uncaught exception
ProcessExit(r) == IF r.raised THEN 1 ELSE r.rc

(***************************************************************************)
(* compare_dataframes and DriftSummary (monitors/drift_detector.py)        *)
(***************************************************************************)
\* the per-feature heuristic of compare_dataframes: 0.10, in hundredths
FlagThreshold == 10

\* drift_flag with the fail thresholds of policy.yaml in place of 0.10
drift_flag_PolicyThresholds(psi, ks) ==
    LET dg == DictGet(LoadPolicy(policyFile), "drift", PyDict(EmptyDict))
    IN  \/ psi[1] = "num" /\ psi[2] >= DictGet(dg, "psi_fail", PyNum(20))[2]
        \/ ks[1] = "num" /\ ks[2] >= DictGet(dg, "ks_fail", PyNum(20))[2]

\* drift_flag = (psi >= 0.10) or (ks >= 0.10); a comparison with nan is False
drift_flag(psi, ks) ==
    \/ psi[1] = "num" /\ psi[2] >= FlagThreshold
    \/ ks[1] = "num" /\ ks[2] >= FlagThreshold

\* float(v) if np.isfinite(v) else np.nan
FiniteOrNaN(v) == IF v[1] = "num" THEN v ELSE PyNaN

\* the `for c in cols` loop of compare_dataframes: one row per feature with data.
\* ks_2samp does not raise on two non-empty finite samples, so ks is its statistic.
RECURSIVE CompareRows(_, _, _)
CompareRows(cols, base, curr) ==
    IF cols = <<>> THEN <<>>
    ELSE LET b == Finite(ColumnOf(base, Head(cols)).sample)
             a == Finite(ColumnOf(curr, Head(cols)).sample)
             rest == CompareRows(Tail(cols), base, curr)
         IN  IF Len(b) = 0 \/ Len(a) = 0 THEN rest
             ELSE LET psi == PyNum(_psi(b, a, DefaultBins))
                      ks == PyNum(ks_2samp(b, a))
                  IN  << [feature |-> Head(cols), psi |-> FiniteOrNaN(psi),
                          ks |-> FiniteOrNaN(ks), drift_flag |-> drift_flag(psi, ks)] >> \o rest

\* pd.to_numeric(column, errors="coerce") without its NaN: what .max() ranges over
RECURSIVE RowPsi(_)
RowPsi(rows) ==
    IF rows = <<>> THEN <<>>
    ELSE (IF Head(rows).psi[1] = "num" THEN <<Head(rows).psi[2]>> ELSE <<>>) \o RowPsi(Tail(rows))

RECURSIVE RowKs(_)
RowKs(rows) ==
    IF rows = <<>> THEN <<>>
    ELSE (IF Head(rows).ks[1] = "num" THEN <<Head(rows).ks[2]>> ELSE <<>>) \o RowKs(Tail(rows))

\* DriftSummary(rows): the rows with its two properties max_psi and max_ks
DriftSummary(rows) ==
    [rows |-> rows, max_psi |-> MaxOrNone(RowPsi(rows)), max_ks |-> MaxOrNone(RowKs(rows))]

\* compare_dataframes that appends to the rows of the call before
compare_dataframes_KeepsRows(base, curr, ignore_cols) ==
    LET ign == IF Truthy(ignore_cols) THEN LowerAll(ignore_cols[2]) ELSE {}
        cols == CompareCols(base, curr, ign)
        kept == IF cmp[1] = "summary" THEN cmp[2].rows ELSE <<>>
        summary == DriftSummary(kept \o CompareRows(cols, base, curr))
    IN  [cols |-> cols, rows |-> summary.rows,
         max_psi |-> summary.max_psi, max_ks |-> summary.max_ks]

\* compare_dataframes(baseline, current, ignore_cols): `ignore_cols or []`
compare_dataframes(base, curr, ignore_cols) ==
    LET ign == IF Truthy(ignore_cols) THEN LowerAll(ignore_cols[2]) ELSE {}
        cols == CompareCols(base, curr, ign)
        summary == DriftSummary(CompareRows(cols, base, curr))
    IN  [cols |-> cols, rows |-> summary.rows,
         max_psi |-> summary.max_psi, max_ks |-> summary.max_ks]

(***************************************************************************)
(* _ks_stat (eval/performance_metrics.py, api/validate_cli.py): the KS      *)
(* statistic between the scores of the positive and of the negative class  *)
(***************************************************************************)
\* zip(y_score, y_true)
RECURSIVE Zip(_, _)
Zip(y_score, y_true) ==
    IF y_score = <<>> \/ y_true = <<>> THEN <<>>
    ELSE << <<Head(y_score), Head(y_true)>> >> \o Zip(Tail(y_score), Tail(y_true))

\* sorted(pairs, key=lambda x: x[0]): ascending by score, ties in their input order
RECURSIVE InsertPair(_, _)
InsertPair(p, s) ==
    IF s = <<>> THEN <<p>>
    ELSE IF p[1] < Head(s)[1] THEN <<p>> \o s ELSE <<Head(s)>> \o InsertPair(p, Tail(s))

RECURSIVE SortedPairs(_)
SortedPairs(x) ==
    IF x = <<>> THEN <<>>
    ELSE InsertPair(x[Len(x)], SortedPairs(SubSeq(x, 1, Len(x) - 1)))

\* the `for _, y in pairs` loop: maxdiff after the pairs left, as a numerator over
\* n1 * n0 (|tp / n1 - fp / n0| = |tp * n0 - fp * n1| / (n1 * n0))
RECURSIVE Sweep(_, _, _, _, _, _)
Sweep(pairs, n1, n0, tp, fp, maxdiff) ==
    IF pairs = <<>> THEN maxdiff
    ELSE LET y == Head(pairs)[2]
             tp2 == IF y = 1 THEN tp + 1 ELSE tp
             fp2 == IF y = 1 THEN fp ELSE fp + 1
             d == AbsDiff(tp2 * n0, fp2 * n1)
         IN  Sweep(Tail(pairs), n1, n0, tp2, fp2, IF d > maxdiff THEN d ELSE maxdiff)

\* _ks_stat on the cumulative counts tp and fp instead of the rates tpr and fpr
_ks_stat_CountsNotRates(y_true, y_score) ==
    LET pairs == SortedPairs(Zip(y_score, y_true))
        n == Len(pairs)
        n1 == Cardinality({i \in 1..n : pairs[i][2] = 1})
        n0 == n - n1
    IN  IF n = 0 THEN PyNone
        ELSE IF n1 = 0 \/ n0 = 0 THEN PyNone
        ELSE <<"frac", Sweep(pairs, 1, 1, 0, 0, 0), 1>>

\* _ks_stat(y_true, y_score): None, or the fraction <<"frac", num, den>>
_ks_stat(y_true, y_score) ==
    LET pairs == SortedPairs(Zip(y_score, y_true))
        n == Len(pairs)
        n1 == Cardinality({i \in 1..n : pairs[i][2] = 1})
        n0 == n - n1
    IN  IF n = 0 THEN PyNone
        ELSE IF n1 = 0 \/ n0 = 0 THEN PyNone
        ELSE <<"frac", Sweep(pairs, n1, n0, 0, 0, 0), n1 * n0>>

(***************************************************************************)
(* The inputs a workspace can hold                                         *)
(***************************************************************************)
Missing == <<"missing">>

\* a dict from a record of optional entries: the Missing ones are left out
Prune(f) == [k \in {x \in DOMAIN f : f[x] # Missing} |-> f[k]]

N_feat1 == <<"f", "e", "a", "t", "1">>
N_FEAT1 == <<"F", "E", "A", "T", "1">>
N_age == <<"a", "g", "e">>
N_subject_id == <<"s", "u", "b", "j", "e", "c", "t", "_", "i", "d">>
N_SUBJECT_ID == <<"S", "U", "B", "J", "E", "C", "T", "_", "I", "D">>
N_admittime == <<"a", "d", "m", "i", "t", "t", "i", "m", "e">>
N_AdmitTime == <<"A", "d", "m", "i", "t", "T", "i", "m", "e">>
N_updated == <<"u", "p", "d", "a", "t", "e", "d">>
N_Label == <<"L", "a", "b", "e", "l">>
N_LABEL == <<"L", "A", "B", "E", "L">>
N_grid == <<"g", "r", "i", "d">>
S_abc == <<"a", "b", "c">>
S_0_9 == <<"0", ".", "9">>

DriftGroups ==
    {Missing, PyNone,
     PyDict(Prune([psi_fail |-> PyNum(1)])),
     PyDict(Prune([ks_fail |-> PyNum(50), ignore_cols |-> PyList(<<N_FEAT1>>)])),
     PyDict(Prune([psi_fail |-> PyNum(1), ks_fail |-> PyNum(50)]))}

PerfGroups ==
    {Missing, PyNone,
     PyDict(Prune([min_auroc |-> PyNum(90)])),
     PyDict(Prune([min_auprc |-> PyNum(50)]))}

FairGroups == {Missing, PyDict(Prune([parity_gap_fail |-> PyNum(10)]))}

ExplGroups ==
    {Missing,
     PyDict(Prune([require_shap_artifact |-> PyBool(FALSE)])),
     PyDict(Prune([top_features_min |-> PyNum(300)]))}

\* policy.yaml: unparseable, an empty document (None), or a mapping
PolicyFiles ==
    {Garbage, Text(PyNone)} \cup
    {Text(PyDict(Prune([version |-> PyNum(100), drift |-> d, performance |-> p,
                        fairness |-> f, explainability |-> e]))) :
        d \in DriftGroups, p \in PerfGroups, f \in FairGroups, e \in ExplGroups}

PerfFiles ==
    {Garbage, Text(PyList(<<>>)), Text(PyNone)} \cup
    {Text(PyDict(Prune([auroc |-> a, auprc |-> b]))) :
        a \in {Missing, PyNone, PyNum(50), PyNum(75), PyNum(80), PyStr(S_abc), PyStr(S_0_9)},
        b \in {Missing, PyNum(20), PyNum(30)}}

FairFiles ==
    {Garbage, Text(PyList(<<>>))} \cup
    {Text(PyDict(Prune([parity_gap |-> g]))) : g \in {Missing, PyNone, PyNum(5), PyNum(8)}}

ShapFiles ==
    {Garbage, Text(PyList(<<>>))} \cup
    {Text(PyDict(Prune([n_top_features |-> n, features |-> f]))) :
        n \in {Missing, PyNaN, PyStr(S_abc), PyNum(250)} \cup {PyNum(100 * k) : k \in 0..MaxTop},
        f \in {Missing, PyList(<<N_feat1>>)}}

\* column values: a baseline sample, a slightly and a strongly shifted one, and one
\* without a finite value
X_base == <<0, 1, 2, 3, 4>>
X_near == <<1, 1, 2, 3, 4>>
X_far == <<3, 4, 4>>
X_nan == <<np_nan, np_nan>>

BaseFrame ==
    << Col(N_feat1, TRUE, X_base), Col(N_subject_id, TRUE, X_base),
       Col(N_admittime, FALSE, X_base), Col(N_Label, TRUE, X_base), Col(N_age, TRUE, X_base) >>

CurrFrames ==
    { << Col(N_feat1, f[1], f[2]), Col(N_subject_id, TRUE, X_far),
         Col(N_admittime, FALSE, X_base), Col(N_Label, TRUE, X_far) >> \o g :
        f \in {<<TRUE, X_base>>, <<TRUE, X_near>>, <<TRUE, X_far>>, <<TRUE, X_nan>>,
               <<FALSE, X_base>>},
        g \in {<<>>, <<Col(N_age, TRUE, X_base)>>, <<Col(N_age, TRUE, X_near)>>} }

\* the two dataset files as data preparation can leave them
DataFiles ==
    {<<Text(BaseFrame), Text(c)>> : c \in CurrFrames} \cup
    {<<Text(BaseFrame), Absent>>, <<Absent, Text(BaseFrame)>>,
     <<Text(BaseFrame), Garbage>>, <<Garbage, Text(BaseFrame)>>}

(***************************************************************************)
(* The state machine                                                       *)
(***************************************************************************)
\* a reports directory that holds none of the validator's other outputs
EmptyReports == [live |-> Absent, history |-> Absent, digest |-> Absent, names |-> {}]

Init ==
    /\ pc = "setup"
    /\ nWrites = 0
    /\ policyFile = Absent
    /\ perfFile = Absent
    /\ shapFile = Absent
    /\ fairFile = Absent
    /\ baseFile = Absent
    /\ currFile = Absent
    /\ gateFile = Absent
    /\ ret = <<"none">>
    /\ exitCode = -1
    /\ driftCols = <<>>
    /\ ignoreArg = PyNone
    /\ cmp = <<"none">>
    /\ cmp2 = <<"none">>
    /\ call = <<"none">>
    /\ seen = <<"none">>
    /\ cli = <<"none">>
    /\ reports = EmptyReports
    /\ now = 0

CanWrite(f) == pc = "setup" /\ nWrites < MaxWrites /\ f = Absent

WritePolicy ==
    /\ CanWrite(policyFile)
    /\ \E f \in PolicyFiles : policyFile' = f
    /\ nWrites' = nWrites + 1
    /\ UNCHANGED <<pc, perfFile, shapFile, fairFile, baseFile, currFile, gateFile, ret,
                   exitCode, driftCols, ignoreArg, cmp>>
    /\ UNCHANGED <<cmp2, call, seen, cli, reports, now>>

WritePerf ==
    /\ CanWrite(perfFile)
    /\ \E f \in PerfFiles : perfFile' = f
    /\ nWrites' = nWrites + 1
    /\ UNCHANGED <<pc, policyFile, shapFile, fairFile, baseFile, currFile, gateFile, ret,
                   exitCode, driftCols, ignoreArg, cmp>>
    /\ UNCHANGED <<cmp2, call, seen, cli, reports, now>>

WriteShap ==
    /\ CanWrite(shapFile)
    /\ \E f \in ShapFiles : shapFile' = f
    /\ nWrites' = nWrites + 1
    /\ UNCHANGED <<pc, policyFile, perfFile, fairFile, baseFile, currFile, gateFile, ret,
                   exitCode, driftCols, ignoreArg, cmp>>
    /\ UNCHANGED <<cmp2, call, seen, cli, reports, now>>

WriteFair ==
    /\ CanWrite(fairFile)
    /\ \E f \in FairFiles : fairFile' = f
    /\ nWrites' = nWrites + 1
    /\ UNCHANGED <<pc, policyFile, perfFile, shapFile, baseFile, currFile, gateFile, ret,
                   exitCode, driftCols, ignoreArg, cmp>>
    /\ UNCHANGED <<cmp2, call, seen, cli, reports, now>>

WriteData ==
    /\ pc = "setup" /\ nWrites < MaxWrites
    /\ baseFile = Absent /\ currFile = Absent
    /\ \E d \in DataFiles : baseFile' = d[1] /\ currFile' = d[2]
    /\ nWrites' = nWrites + 1
    /\ UNCHANGED <<pc, policyFile, perfFile, shapFile, fairFile, gateFile, ret,
                   exitCode, driftCols, ignoreArg, cmp>>
    /\ UNCHANGED <<cmp2, call, seen, cli, reports, now>>

\* one run of `python src/ops/policy_gate.py` in the workspace
GateMain ==
    /\ pc = "setup"
    /\ \E r \in {main(policyFile, perfFile, shapFile, fairFile, baseFile, currFile)} :
           /\ gateFile' = IF r.raised THEN gateFile ELSE Text(r.out)
           /\ ret' = IF r.raised THEN <<"raised", r.exc>> ELSE <<"returned", r.rc>>
           /\ exitCode' = ProcessExit(r)
           /\ driftCols' = r.cols
    /\ pc' = "done"
    /\ UNCHANGED <<nWrites, policyFile, perfFile, shapFile, fairFile, baseFile, currFile,
                   ignoreArg, cmp>>
    /\ UNCHANGED <<cmp2, call, seen, cli, reports, now>>

\* a fresh workspace for the next run
Reset ==
    /\ pc = "done"
    /\ pc' = "setup"
    /\ nWrites' = 0
    /\ policyFile' = Absent /\ perfFile' = Absent /\ shapFile' = Absent /\ fairFile' = Absent
    /\ baseFile' = Absent /\ currFile' = Absent /\ gateFile' = Absent
    /\ ret' = <<"none">> /\ exitCode' = -1 /\ driftCols' = <<>>
    /\ ignoreArg' = PyNone /\ cmp' = <<"none">>
    /\ cmp2' = <<"none">> /\ call' = <<"none">> /\ seen' = <<"none">> /\ cli' = <<"none">>
    /\ reports' = EmptyReports /\ now' = 0

Next == WritePolicy \/ WritePerf \/ WriteShap \/ WriteFair \/ WriteData \/ GateMain \/ Reset

Spec == Init /\ [][Next]_vars

(***************************************************************************)
(* A second specification: datasets built column by column, for the        *)
(* column selection of compare_dataframes and of _drift_summary            *)
(***************************************************************************)
ColumnUniverse == {N_feat1, N_SUBJECT_ID, N_AdmitTime, N_updated, N_Label, N_grid}
IgnoreLists == {<<N_LABEL>>, <<N_FEAT1>>, <<N_grid, N_age>>}

FrameOf(f) == IF f[1] = "text" THEN f[2] ELSE <<>>

\* a column of the baseline that the current dataset has too
AddSharedColumn ==
    /\ pc = "setup"
    /\ Len(FrameOf(baseFile)) < MaxCols
    /\ \E n \in ColumnUniverse \ ColumnNames(FrameOf(baseFile)),
          bnum \in BOOLEAN, cnum \in BOOLEAN :
          /\ bnum \/ cnum
          /\ baseFile' = Text(Append(FrameOf(baseFile), Col(n, bnum, X_base)))
          /\ currFile' = Text(Append(FrameOf(currFile), Col(n, cnum, X_base)))
    /\ UNCHANGED <<pc, nWrites, policyFile, perfFile, shapFile, fairFile, gateFile, ret,
                   exitCode, driftCols, ignoreArg, cmp>>
    /\ UNCHANGED <<cmp2, call, seen, cli, reports, now>>

\* a column of the baseline that the current dataset lacks
AddOwnColumn ==
    /\ pc = "setup"
    /\ Exists(baseFile) /\ Exists(currFile)
    /\ Len(FrameOf(baseFile)) < MaxCols
    /\ \E n \in ColumnUniverse \ ColumnNames(FrameOf(baseFile)) :
          baseFile' = Text(Append(FrameOf(baseFile), Col(n, TRUE, X_base)))
    /\ UNCHANGED <<pc, nWrites, policyFile, perfFile, shapFile, fairFile, currFile, gateFile,
                   ret, exitCode, driftCols, ignoreArg, cmp>>
    /\ UNCHANGED <<cmp2, call, seen, cli, reports, now>>

\* the same ignore list for both callers: the argument of compare_dataframes and
\* drift.ignore_cols of policy.yaml
SetIgnoreCols ==
    /\ pc = "setup"
    /\ policyFile = Absent
    /\ \E l \in IgnoreLists :
          /\ ignoreArg' = PyList(l)
          /\ policyFile' = Text(PyDict(Prune([drift |-> PyDict(Prune([ignore_cols |-> PyList(l)]))])))
    /\ UNCHANGED <<pc, nWrites, perfFile, shapFile, fairFile, baseFile, currFile, gateFile, ret,
                   exitCode, driftCols, cmp>>
    /\ UNCHANGED <<cmp2, call, seen, cli, reports, now>>

\* a caller hands the two loaded datasets to compare_dataframes
CompareDataframes ==
    /\ pc = "setup"
    /\ baseFile[1] = "text" /\ currFile[1] = "text"
    /\ cmp' = <<"summary", compare_dataframes(baseFile[2], currFile[2], ignoreArg)>>
    /\ pc' = "done"
    /\ UNCHANGED <<nWrites, policyFile, perfFile, shapFile, fairFile, baseFile, currFile,
                   gateFile, ret, exitCode, driftCols, ignoreArg>>
    /\ UNCHANGED <<cmp2, call, seen, cli, reports, now>>

NextSelect ==
    AddSharedColumn \/ AddOwnColumn \/ SetIgnoreCols \/ CompareDataframes \/ GateMain \/ Reset

SpecSelect == Init /\ [][NextSelect]_vars

(***************************************************************************)
(* A third specification: the statistics routines on small samples, and    *)
(* compare_dataframes and the gate on datasets that hold them              *)
(***************************************************************************)
\* the longest sample
MaxLen == 3

SampleValues == {np_nan, 0, 1, 2}

Descending(x) == \A i \in 1..(Len(x) - 1) : x[i] >= x[i + 1]

\* the values of one column, the rows in descending order of the value
Samples == {x \in UNION {[1..n -> SampleValues] : n \in 1..MaxLen} : Descending(x)}

\* the bins argument of _psi
BinsSet == {1, 2, DefaultBins}

\* predictions.csv rows <<y_true, y_score>>, in any order
Predictions == UNION {[1..n -> {0, 1} \X {0, 1, 2}] : n \in 0..MaxLen}

RECURSIVE Column(_, _)
Column(rows, j) == IF rows = <<>> THEN <<>> ELSE <<Head(rows)[j]>> \o Column(Tail(rows), j)

\* the scores of the rows whose label is (y = 1) or is not (y = 0) positive
RECURSIVE ScoresOf(_, _)
ScoresOf(rows, y) ==
    IF rows = <<>> THEN <<>>
    ELSE (IF (Head(rows)[1] = 1) <=> (y = 1) THEN <<Head(rows)[2]>> ELSE <<>>)
            \o ScoresOf(Tail(rows), y)

\* feature rows as a caller can hand them to DriftSummary
RowValues ==
    {[feature |-> N_feat1, psi |-> p, ks |-> k, drift_flag |-> drift_flag(p, k)] :
        p \in {PyNaN, PyNum(5), PyNum(30)}, k \in {PyNaN, PyNum(20)}}

RowLists == {<<>>} \cup {<<r>> : r \in RowValues} \cup {<<r, q>> : r \in RowValues, q \in RowValues}

\* two datasets with the feature feat1, and with or without a second feature age
LoadSamples ==
    /\ pc = "setup"
    /\ baseFile = Absent /\ currFile = Absent
    /\ \E e \in Samples, a \in Samples, withAge \in BOOLEAN :
          /\ baseFile' = Text(<<Col(N_feat1, TRUE, e)>> \o
                              (IF withAge THEN <<Col(N_age, TRUE, X_base)>> ELSE <<>>))
          /\ currFile' = Text(<<Col(N_feat1, TRUE, a)>> \o
                              (IF withAge THEN <<Col(N_age, TRUE, X_near)>> ELSE <<>>))
    /\ UNCHANGED <<pc, nWrites, policyFile, perfFile, shapFile, fairFile, gateFile, ret,
                   exitCode, driftCols, ignoreArg, cmp, cmp2, call, seen, cli, reports, now>>

\* a policy whose drift thresholds are far above the per-feature heuristic
LenientDriftPolicy ==
    Text(PyDict(Prune([drift |-> PyDict(Prune([psi_fail |-> PyNum(50), ks_fail |-> PyNum(50)]))])))

WriteDriftPolicy ==
    /\ pc = "setup"
    /\ policyFile = Absent
    /\ baseFile[1] = "text" /\ currFile[1] = "text"
    /\ policyFile' = LenientDriftPolicy
    /\ UNCHANGED <<pc, nWrites, perfFile, shapFile, fairFile, baseFile, currFile, gateFile, ret,
                   exitCode, driftCols, ignoreArg, cmp, cmp2, call, seen, cli, reports, now>>

\* _psi(expected, actual, bins) on the two feat1 columns
CallPsi ==
    /\ pc = "setup"
    /\ policyFile = Absent
    /\ baseFile[1] = "text" /\ currFile[1] = "text"
    /\ \E bins \in BinsSet :
          LET e == baseFile[2][1].sample
              a == currFile[2][1].sample
          IN  call' = <<"psi", e, a, bins, _psi(e, a, bins)>>
    /\ pc' = "done"
    /\ UNCHANGED <<nWrites, policyFile, perfFile, shapFile, fairFile, baseFile, currFile,
                   gateFile, ret, exitCode, driftCols, ignoreArg, cmp, cmp2, seen, cli, reports, now>>

\* _ks_stat(y_true, y_score) on the rows of a predictions file
CallKsStat ==
    /\ pc = "setup"
    /\ baseFile = Absent /\ currFile = Absent
    /\ \E rows \in Predictions :
          call' = <<"ks_stat", rows, _ks_stat(Column(rows, 1), Column(rows, 2))>>
    /\ pc' = "done"
    /\ UNCHANGED <<nWrites, policyFile, perfFile, shapFile, fairFile, baseFile, currFile,
                   gateFile, ret, exitCode, driftCols, ignoreArg, cmp, cmp2, seen, cli, reports, now>>

\* DriftSummary(rows)
NewDriftSummary ==
    /\ pc = "setup"
    /\ baseFile = Absent /\ currFile = Absent
    /\ \E rows \in RowLists : call' = <<"DriftSummary", DriftSummary(rows)>>
    /\ pc' = "done"
    /\ UNCHANGED <<nWrites, policyFile, perfFile, shapFile, fairFile, baseFile, currFile,
                   gateFile, ret, exitCode, driftCols, ignoreArg, cmp, cmp2, seen, cli, reports, now>>

\* the caller hands the same datasets and ignore list to compare_dataframes again
CompareAgain ==
    /\ pc = "done"
    /\ cmp[1] = "summary" /\ cmp2[1] = "none"
    /\ cmp2' = <<"summary", compare_dataframes(baseFile[2], currFile[2], ignoreArg)>>
    /\ UNCHANGED <<pc, nWrites, policyFile, perfFile, shapFile, fairFile, baseFile, currFile,
                   gateFile, ret, exitCode, driftCols, ignoreArg, cmp, call, seen, cli, reports, now>>

NextStats ==
    \/ LoadSamples \/ WriteDriftPolicy \/ CallPsi \/ CallKsStat \/ NewDriftSummary
    \/ CompareDataframes \/ CompareAgain \/ GateMain \/ Reset

SpecStats == Init /\ [][NextStats]_vars

(***************************************************************************)
(* A fourth specification: the result write of the gate, step by step,     *)
(* with another process reading policy_gate_result.json                    *)
(***************************************************************************)
\* the file just opened for writing: it exists and is empty
Truncated == <<"truncated">>

\* the file holding a proper prefix of the JSON text of document v
Partial(v) == <<"partial", v>>

\* str.lower() on the status strings a result document holds
StatusLower(s) ==
    CASE s = "PASS" -> "pass"
      [] s = "FAIL" -> "fail"
      [] OTHER      -> s

\* _gate_result that takes a result file it cannot parse for a pass
_gate_result_FailsOpen(f) ==
    IF ~Exists(f)
    THEN [status |-> "fail", policy |-> PyStr(S_default),
          reasons |-> <<"Gate unavailable; failing closed.">>]
    ELSE IF f[1] # "text"
    THEN [status |-> "pass", policy |-> PyStr(S_default),
          reasons |-> <<"Gate parse error; failing closed.">>]
    ELSE LET raw == f[2]
             status == IF "status" \in DOMAIN raw /\ raw.status # ""
                       THEN StatusLower(raw.status)
                       ELSE IF "gate_status" \in DOMAIN raw THEN StatusLower(raw.gate_status)
                       ELSE ""
         IN  [status |-> IF status \in {"pass", "passed", "success"} THEN "pass" ELSE "fail",
              policy |-> IF "policy" \in DOMAIN raw THEN raw.policy ELSE PyStr(S_default),
              reasons |-> IF "reasons" \in DOMAIN raw THEN raw.reasons ELSE <<>>]

\* _gate_result(): what a reader makes of policy_gate_result.json
_gate_result(f) ==
    IF ~Exists(f)
    THEN [status |-> "fail", policy |-> PyStr(S_default),
          reasons |-> <<"Gate unavailable; failing closed.">>]
    ELSE IF f[1] # "text"
    THEN [status |-> "fail", policy |-> PyStr(S_default),
          reasons |-> <<"Gate parse error; failing closed.">>]
    ELSE LET raw == f[2]
             status == IF "status" \in DOMAIN raw /\ raw.status # ""
                       THEN StatusLower(raw.status)
                       ELSE IF "gate_status" \in DOMAIN raw THEN StatusLower(raw.gate_status)
                       ELSE ""
         IN  [status |-> IF status \in {"pass", "passed", "success"} THEN "pass" ELSE "fail",
              policy |-> IF "policy" \in DOMAIN raw THEN raw.policy ELSE PyStr(S_default),
              reasons |-> IF "reasons" \in DOMAIN raw THEN raw.reasons ELSE <<>>]

\* main() up to open(..., "w") inside write_text: the document is computed and the
\* result file is created or truncated; an exception before that ends the run
GateOpenResult ==
    /\ pc = "setup"
    /\ \E r \in {main(policyFile, perfFile, shapFile, fairFile, baseFile, currFile)} :
           /\ pc' = IF r.raised THEN "done" ELSE "writing"
           /\ gateFile' = IF r.raised THEN gateFile ELSE Truncated
           /\ ret' = IF r.raised THEN <<"raised", r.exc>> ELSE <<"writing", r.out, r.rc>>
           /\ exitCode' = IF r.raised THEN ProcessExit(r) ELSE exitCode
           /\ driftCols' = r.cols
    /\ UNCHANGED <<nWrites, policyFile, perfFile, shapFile, fairFile, baseFile, currFile,
                   ignoreArg, cmp, cmp2, call, seen, cli, reports, now>>

\* the buffered writer flushes the first part of a text longer than its buffer
GateFlushResult ==
    /\ pc = "writing"
    /\ gateFile = Truncated
    /\ gateFile' = Partial(ret[2])
    /\ UNCHANGED <<pc, nWrites, policyFile, perfFile, shapFile, fairFile, baseFile,
                   currFile, ret, exitCode, driftCols, ignoreArg, cmp, cmp2, call, seen, cli, reports, now>>

\* the rest of the text is written, the file is closed and main returns
GateCloseResult ==
    /\ pc = "writing"
    /\ gateFile' = Text(ret[2])
    /\ ret' = <<"returned", ret[3]>>
    /\ exitCode' = ret[3]
    /\ pc' = "done"
    /\ UNCHANGED <<nWrites, policyFile, perfFile, shapFile, fairFile, baseFile, currFile,
                   driftCols, ignoreArg, cmp, cmp2, call, seen, cli, reports, now>>

\* another process reads policy_gate_result.json as _gate_result does
ReadResult ==
    /\ seen' = <<"read", gateFile, _gate_result(gateFile)>>
    /\ UNCHANGED <<pc, nWrites, policyFile, perfFile, shapFile, fairFile, baseFile,
                   currFile, gateFile, ret, exitCode, driftCols, ignoreArg, cmp, cmp2,
                   call, cli, reports, now>>

\* the artifacts are removed for a next gate run; the previous result stays
Rerun ==
    /\ pc = "done"
    /\ pc' = "setup"
    /\ nWrites' = 0
    /\ perfFile' = Absent /\ shapFile' = Absent
    /\ ret' = <<"none">> /\ exitCode' = -1 /\ driftCols' = <<>>
    /\ UNCHANGED <<policyFile, fairFile, baseFile, currFile, gateFile, ignoreArg, cmp,
                   cmp2, call, seen, cli, reports, now>>

\* performance reports of a model above and of one below the default min_auroc
RunPerfFiles == {Text(PyDict(Prune([auroc |-> a, auprc |-> PyNum(30)]))) :
                    a \in {PyNum(80), PyNum(50)}}

\* the upstream steps write performance_metrics.json and shap_top_features.json
WriteRunArtifacts ==
    /\ pc = "setup"
    /\ perfFile = Absent /\ shapFile = Absent
    /\ \E f \in RunPerfFiles : perfFile' = f
    /\ shapFile' = Text(PyDict(Prune([n_top_features |-> PyNum(200), features |-> Missing])))
    /\ UNCHANGED <<pc, nWrites, policyFile, fairFile, baseFile, currFile, gateFile, ret,
                   exitCode, driftCols, ignoreArg, cmp, cmp2, call, seen, cli, reports, now>>

NextWrite ==
    \/ WriteRunArtifacts \/ WritePolicy \/ GateOpenResult \/ GateFlushResult
    \/ GateCloseResult \/ ReadResult \/ Rerun \/ Reset

SpecWrite == Init /\ [][NextWrite]_vars

(***************************************************************************)
(* A fifth specification: the validator CLI, which runs the performance,   *)
(* fairness, SHAP and gate steps and writes live_validation.json           *)
(***************************************************************************)
\* the rows _maybe_seed_predictions writes: <<y_true, y_pred_prob>>, the
\* probability in hundredths
SeedRows == << <<1, 91>>, <<0, 12>>, <<1, 77>>, <<0, 5>> >>

\* a row whose cells int() or float() reject, or that lacks a column
BadRow == <<"bad">>

\* predictions.csv: absent, not readable as UTF-8 text, or rows under a header
PredFiles ==
    {Absent, Garbage, Text(<<>>), Text(SeedRows), Text(<< <<1, 20>>, <<0, 80>> >>),
     Text(<< <<1, 90>>, BadRow >>), Text(<< BadRow >>)}

\* _maybe_seed_predictions(out_csv): the file main works on
_maybe_seed_predictions(f) == IF Exists(f) THEN f ELSE Text(SeedRows)

\* _parse_preds: the rows whose two cells convert
_parse_preds(rows) == SelectSeq(rows, LAMBDA r : Len(r) = 2)

\* a quotient as a Python number of the model: hundredths, rounded down
Quotient(num, den) == PyNum((100 * num) \div den)

\* sum(((1 if s >= 0.5 else 0) == yy) ...) / n
_accuracy_at_threshold(y, p) ==
    IF Len(y) = 0 THEN PyNone
    ELSE Quotient(Cardinality({i \in 1..Len(y) : (IF p[i] >= 50 THEN 1 ELSE 0) = y[i]}),
                  Len(y))

\* twice the average rank of observation i among the scores
Rank2(p, i) ==
    2 * Cardinality({j \in 1..Len(p) : p[j] < p[i]})
        + Cardinality({j \in 1..Len(p) : p[j] = p[i]}) + 1

\* twice the sum of the ranks of the positives among the first n observations
RECURSIVE RankSum2(_, _, _)
RankSum2(y, p, n) ==
    IF n = 0 THEN 0
    ELSE (IF y[n] = 1 THEN Rank2(p, n) ELSE 0) + RankSum2(y, p, n - 1)

\* _auc_mw with the rank correction taken from the negatives
_auc_mw_NegativesCorrection(y, p) ==
    LET n1 == Cardinality({i \in 1..Len(y) : y[i] = 1})
        n0 == Cardinality({i \in 1..Len(y) : y[i] = 0})
    IN  IF n1 = 0 \/ n0 = 0 THEN PyNone
        ELSE Quotient(RankSum2(y, p, Len(y)) - n0 * (n0 + 1), 2 * n1 * n0)

\* _auc_mw(y_true, y_prob) and _auroc: U1 / (n1 * n0) from average ranks
_auc_mw(y, p) ==
    LET n1 == Cardinality({i \in 1..Len(y) : y[i] = 1})
        n0 == Cardinality({i \in 1..Len(y) : y[i] = 0})
    IN  IF n1 = 0 \/ n0 = 0 THEN PyNone
        ELSE Quotient(RankSum2(y, p, Len(y)) - n1 * (n1 + 1), 2 * n1 * n0)

\* the distinct scores in descending order
RECURSIVE Descending_uniq(_)
Descending_uniq(S) ==
    IF S = {} THEN <<>> ELSE <<SetMax(S)>> \o Descending_uniq(S \ {SetMax(S)})

\* the loop of _auprc from threshold k on, as the fraction <<num, den>>
RECURSIVE AreaFrom(_, _, _, _, _)
AreaFrom(y, p, thresholds, k, prev_tp) ==
    IF k > Len(thresholds) THEN <<0, 1>>
    ELSE LET t == thresholds[k]
             P == Cardinality({i \in 1..Len(y) : y[i] = 1})
             tp == Cardinality({i \in 1..Len(y) : p[i] >= t /\ y[i] = 1})
             fp == Cardinality({i \in 1..Len(y) : p[i] >= t /\ y[i] # 1})
             num == (IF tp + fp > 0 THEN tp ELSE 1) * (IF tp > prev_tp THEN tp - prev_tp ELSE 0)
             den == (IF tp + fp > 0 THEN tp + fp ELSE 1) * P
         IN  CHOOSE a \in {<<num * rest[2] + rest[1] * den, den * rest[2]>> :
                              rest \in {AreaFrom(y, p, thresholds, k + 1, tp)}} : TRUE

\* _auprc(y_true, y_score) for labels in {0, 1}
_auprc(y, p) ==
    IF Len(y) = 0 \/ \A i \in 1..Len(y) : y[i] # 1 THEN PyNone
    ELSE LET uniq == Descending_uniq(Values(p))
             area == AreaFrom(y, p, uniq \o <<uniq[Len(uniq)] - 100>>, 1, 0)
         IN  Quotient(area[1], area[2])

\* _ks_stat as a Python number
KsNumber(y, p) ==
    LET ks == _ks_stat(y, p) IN IF ks = PyNone THEN PyNone ELSE Quotient(ks[2], ks[3])

\* the document main writes when the performance step raises
EmptyPerformance ==
    ("accuracy@0.5" :> PyNone) @@
    [n |-> PyNum(0), n_samples |-> PyNum(0), auroc |-> PyNone, ks_stat |-> PyNone]

\* _compute_basic_performance(preds_csv) on a readable file
_compute_basic_performance(rows) ==
    LET parsed == _parse_preds(rows)
        y == Column(parsed, 1)
        p == Column(parsed, 2)
    IN  IF Len(y) = 0 THEN EmptyPerformance
        ELSE ("accuracy@0.5" :> _accuracy_at_threshold(y, p)) @@
             [n |-> PyNum(100 * Len(y)), n_samples |-> PyNum(100 * Len(y)),
              auroc |-> _auc_mw(y, p), ks_stat |-> KsNumber(y, p)]

\* compute_metrics(y_true, y_score) of the eval module: the entries a later step
\* of the validator or the gate checks
compute_metrics(rows) ==
    LET parsed == _parse_preds(rows)
        y == Column(parsed, 1)
        p == Column(parsed, 2)
    IN  ("accuracy@0.5" :> _accuracy_at_threshold(y, p)) @@
        [n |-> PyNum(100 * Len(y)), n_samples |-> PyNum(100 * Len(y)),
         auroc |-> _auc_mw(y, p), ks_stat |-> KsNumber(y, p), auprc |-> _auprc(y, p)]

\* the (label, score) pairs handed to compute_metrics, some of which do not parse
MetricInputs == UNION {[1..n -> ({0, 1} \X {0, 1, 2}) \cup {BadRow}] : n \in 0..MaxLen}

\* compute_metrics(y_true, y_score) on the pairs
CallComputeMetrics ==
    /\ pc = "setup"
    /\ baseFile = Absent /\ currFile = Absent
    /\ \E rows \in MetricInputs : call' = <<"compute_metrics", rows, compute_metrics(rows)>>
    /\ pc' = "done"
    /\ UNCHANGED <<nWrites, policyFile, perfFile, shapFile, fairFile, baseFile, currFile,
                   gateFile, ret, exitCode, driftCols, ignoreArg, cmp, cmp2, seen, cli,
                   reports, now>>

NextMetrics == CallComputeMetrics \/ Reset

SpecMetrics == Init /\ [][NextMetrics]_vars

\* run_performance_metrics(preds_csv): the files it writes, or the exception of
\* the fallback when the predictions cannot be read
run_performance_metrics(preds, evalModule) ==
    IF preds[1] # "text" THEN [raised |-> TRUE, json |-> Absent, csv |-> FALSE]
    ELSE IF evalModule
    THEN [raised |-> FALSE, json |-> Text(PyDict(compute_metrics(preds[2]))), csv |-> TRUE]
    ELSE [raised |-> FALSE, json |-> Text(PyDict(_compute_basic_performance(preds[2]))),
          csv |-> TRUE]

\* the three placeholder files of run_fairness_audit
FairnessFiles == {"api_fairness_metrics.csv", "api_fairness_report.md"}
FairnessSummary ==
    Text(PyDict([overall |-> PyDict([demographic_parity_ratio |-> PyNum(100)])]))

\* the artifact shap_stub.main writes
FeatureName(c) == <<"f", "e", "a", "t", "u", "r", "e", "_", c>>
ShapStubFile ==
    Text(PyDict([n_top_features |-> PyNum(500),
                 features |-> PyList(<<FeatureName("a"), FeatureName("b"), FeatureName("c"),
                                       FeatureName("d"), FeatureName("e")>>)]))

\* policy_gate_result.json as a gate module that exposes run(reports_dir) leaves
\* it: not written, not JSON, or a document with its verdict under "status" or
\* "gate_status"
RunGateFiles ==
    {Absent, Garbage, Text([status |-> "passed"]), Text([status |-> "fail"]),
     Text([gate_status |-> "PASS"])}

\* src.ops.policy_gate as run_policy_gate finds it: not importable, a module with
\* none of run, evaluate_policy_gate and main, a module whose entry point raises,
\* a module whose main takes no argument, a module whose main parses an argument
\* list, or a module with run(reports_dir)
GateModules ==
    {[kind |-> k, writes |-> Absent] :
        k \in {"unavailable", "no_entry", "raises", "main_noarg", "main_argv"}}
    \cup {[kind |-> "run", writes |-> f] : f \in RunGateFiles}

\* x or 0.0
OrZero(x) == IF Truthy(x) THEN x ELSE PyNum(0)

\* the fallback of run_policy_gate: pass or fail derived from the performance
FallbackGate(pf) ==
    LET perf == _load_json(pf, PyNone)
        ok == IsDict(perf)
        auroc == IF ok THEN OrZero(DictGet(perf, "auroc", PyNone)) ELSE PyNone
        ks == IF ok THEN OrZero(DictGet(perf, "ks_stat", PyNone)) ELSE PyNone
    IN  [status |-> IF ok THEN (IF auroc[2] >= 70 /\ ks[2] >= 10 THEN "PASS" ELSE "FAIL")
                    ELSE "PASS",
         policy |-> PyDict([min_auroc |-> PyNum(70), min_ks |-> PyNum(10)]),
         reasons |-> <<>>,
         observed |-> [max_psi |-> PyNone, max_ks |-> ks]]

\* run_policy_gate(): the result file it leaves, given the one already there, or
\* the exit of the interpreter when the module's main rejects the argument list
run_policy_gate(gateModule, old, polf, pf, sf, ff, bf, cf) ==
    CASE gateModule.kind = "main_argv" -> [exited |-> TRUE, file |-> old]
      [] gateModule.kind = "run" ->
            [exited |-> FALSE,
             file |-> IF Exists(gateModule.writes) THEN gateModule.writes ELSE old]
      [] gateModule.kind = "main_noarg" ->
            CHOOSE g \in {IF r.raised THEN [exited |-> FALSE, file |-> Text(FallbackGate(pf))]
                          ELSE [exited |-> FALSE, file |-> Text(r.out)] :
                             r \in {main(polf, pf, sf, ff, bf, cf)}} : TRUE
      [] OTHER -> [exited |-> FALSE, file |-> Text(FallbackGate(pf))]

\* _perf_for_live()
_perf_for_live(pf) ==
    LET data == _load_json(pf, PyNone)
    IN  IF IsDict(data)
        THEN ("accuracy@0.5" :> DictGet(data, "accuracy@0.5", PyNone)) @@
             [n |-> DictGet(data, "n", PyNone), auroc |-> DictGet(data, "auroc", PyNone),
              ks_stat |-> DictGet(data, "ks_stat", PyNone)]
        ELSE ("accuracy@0.5" :> PyNone) @@
             [n |-> PyNum(0), auroc |-> PyNone, ks_stat |-> PyNone]

\* the payload of _write_live_validation(status, performance, gate)
_write_live_validation(status, performance, gate) ==
    [status |-> status,
     performance |-> performance,
     gate |-> [status |-> IF status = "PASS" THEN "pass" ELSE "fail",
               policy |-> gate.policy, reasons |-> gate.reasons]]

\* the names of the files of the reports directory that the model keeps no
\* content of, given the files already there
OtherArtifacts(perfCsv) ==
    {"predictions.csv"} \cup FairnessFiles
        \cup (IF perfCsv THEN {"performance_metrics.csv"} ELSE {})

\* the seven artifacts test_validate_cli_end_to_end looks for
RequiredArtifacts ==
    {"performance_metrics.json", "performance_metrics.csv", "api_fairness_metrics.csv",
     "api_fairness_report.md", "fairness_summary.json", "policy_gate_result.json",
     "live_validation.json"}

\* the files regulatory_monitor, run_metadata and policy_registry_view write
MonitorFiles ==
    {"regulatory_monitor.json", "run_metadata.json", "policy_registry_summary.json"}

\* the report files evidence_digest lists
REPORT_FILES ==
    {"live_validation.json", "policy_gate_result.json", "performance_metrics.json",
     "performance_metrics.csv", "fairness_summary.json", "api_fairness_report.md",
     "api_fairness_metrics.csv", "shap_top_features.json", "regulatory_monitor.json",
     "run_metadata.json", "policy_registry_summary.json", "index.html",
     "driftops_bundle.zip"}

\* the file of the reports directory d under name n; a file the model keeps no
\* content of is written before the digest is taken and stands for its content
FileNamed(n, d) ==
    CASE n = "live_validation.json"     -> d.live
      [] n = "policy_gate_result.json"  -> d.gate
      [] n = "performance_metrics.json" -> d.perf
      [] n = "fairness_summary.json"    -> d.fair
      [] n = "shap_top_features.json"   -> d.shap
      [] OTHER -> IF n \in d.names THEN Text(n) ELSE Absent

\* _sha256_file: a hash without collisions over the files of the model
_sha256_file(f) == <<"sha256", f>>

\* _file_info() (size and mtime left out)
_file_info(f) ==
    IF Exists(f) THEN [exists |-> TRUE, sha256 |-> _sha256_file(f)]
    ELSE [exists |-> FALSE, sha256 |-> <<"sha256", Absent>>]

\* the report_files entry of the digest evidence_digest.main writes
evidence_digest(d) == [n \in REPORT_FILES |-> _file_info(FileNamed(n, d))]

\* str.upper() on the status strings a validation document holds
StatusUpper(s) ==
    CASE s = "pass" -> "PASS"
      [] s = "fail" -> "FAIL"
      [] OTHER      -> s

\* the length of the rolling window of drift_history.json
MAX_RECORDS == 200

\* history[-MAX_RECORDS:] when the history is longer than MAX_RECORDS
LastRecords(history) ==
    IF Len(history) > MAX_RECORDS
    THEN SubSeq(history, Len(history) - MAX_RECORDS + 1, Len(history))
    ELSE history

\* drift_history.main(out_dir) at time ts: the history file it leaves and the
\* record it appended, from the history file hf, live_validation.json lf,
\* performance_metrics.json pf and policy_gate_result.json gf (the ci entry of
\* the record comes from the environment and is left out)
drift_history(hf, lf, pf, gf, ts) ==
    LET perf == _load_json(pf, PyDict(EmptyDict))
        gate == IF gf[1] = "text" THEN gf[2] ELSE [status |-> ""]
        policy == IF "policy" \in DOMAIN gate THEN gate.policy ELSE PyNone
        pol == IF Truthy(policy) THEN policy ELSE PyDict(EmptyDict)
        history == IF hf[1] = "text" /\ hf[2][1] = "list" THEN hf[2][2] ELSE <<>>
    IN  IF ~IsDict(perf) \/ ~IsDict(pol)
        THEN [raised |-> TRUE, record |-> <<"none">>, file |-> hf]
        ELSE LET record ==
                     [ts |-> ts,
                      status |-> IF lf[1] = "text" THEN StatusUpper(lf[2].status) ELSE "",
                      auroc |-> DictGet(perf, "auroc", PyNone),
                      ks_stat |-> DictGet(perf, "ks_stat", PyNone),
                      min_auroc |-> DictGet(pol, "min_auroc", PyNone),
                      min_ks |-> DictGet(pol, "min_ks", PyNone),
                      reasons |-> IF "reasons" \in DOMAIN gate THEN gate.reasons ELSE <<>>]
             IN  [raised |-> FALSE, record |-> record,
                  file |-> Text(PyList(LastRecords(Append(history, record))))]

\* main() is run at most this many times in one workspace
MaxRuns == 2

\* what the interpreter can import when the validator runs: the metrics module,
\* the SHAP stub, the gate module and the governance add-ons
Environments ==
    {[evalModule |-> e, shapStub |-> s, gateModule |-> g, addOns |-> a] :
        e \in BOOLEAN, s \in BOOLEAN, g \in GateModules, a \in BOOLEAN}

\* the policy files of the validator's workspace
CliPolicyFiles == {Garbage, LenientDriftPolicy}

WriteCliPolicy ==
    /\ pc = "setup"
    /\ policyFile = Absent
    /\ \E f \in CliPolicyFiles : policyFile' = f
    /\ UNCHANGED <<pc, nWrites, perfFile, shapFile, fairFile, baseFile, currFile, gateFile,
                   ret, exitCode, driftCols, ignoreArg, cmp, cmp2, call, seen, cli,
                   reports, now>>

\* the names of all files in the reports directory
NamesOnDisk(d) ==
    d.names \cup {n \in {"live_validation.json", "policy_gate_result.json",
                         "performance_metrics.json", "fairness_summary.json",
                         "shap_top_features.json"} : Exists(FileNamed(n, d))}

\* validate_cli.main(["--preds", "reports/predictions.csv"]) run from the
\* workspace root: performance, fairness, SHAP stub, gate, the governance
\* add-ons in their order, then live_validation.json and the return code
ValidateMain ==
    /\ pc = "setup"
    /\ now < MaxRuns
    /\ \E preds \in PredFiles,
          env \in (IF cli[1] = "again" THEN {cli[2]} ELSE Environments) :
         \E perf \in {run_performance_metrics(_maybe_seed_predictions(preds), env.evalModule)} :
           LET pf == IF perf.raised THEN Text(PyDict(EmptyPerformance)) ELSE perf.json
               sf == IF env.shapStub THEN ShapStubFile ELSE shapFile
               names1 == reports.names \cup OtherArtifacts(perf.csv)
           IN  \E g \in {run_policy_gate(env.gateModule, gateFile, policyFile, pf, sf,
                                         FairnessSummary, baseFile, currFile)} :
               \E hist \in {drift_history(reports.history, reports.live, pf, g.file, now + 1)} :
                 LET gate == _gate_result(g.file)
                     status == IF gate.status = "pass" THEN "PASS" ELSE "FAIL"
                     live == _write_live_validation(status, _perf_for_live(pf), gate)
                     atDigest == [live |-> reports.live, gate |-> g.file, perf |-> pf,
                                  fair |-> FairnessSummary, shap |-> sf,
                                  names |-> names1 \cup MonitorFiles]
                     names2 == IF env.addOns
                               THEN names1 \cup MonitorFiles \cup {"evidence_digest.json"}
                                      \cup (IF hist.raised THEN {} ELSE {"drift_history.json"})
                               ELSE names1
                     atEnd == [atDigest EXCEPT !.live = Text(live), !.names = names2]
                 IN  /\ perfFile' = pf
                     /\ fairFile' = FairnessSummary
                     /\ shapFile' = sf
                     /\ gateFile' = g.file
                     /\ reports' =
                          IF g.exited THEN [reports EXCEPT !.names = names1]
                          ELSE [live |-> Text(live),
                                history |-> IF env.addOns THEN hist.file ELSE reports.history,
                                digest |-> IF env.addOns THEN Text(evidence_digest(atDigest))
                                           ELSE reports.digest,
                                names |-> names2]
                     /\ cli' = IF g.exited
                               THEN <<"exited", 2,
                                      NamesOnDisk([atDigest EXCEPT !.names = names1]), env>>
                               ELSE <<"returned", ReturnCode(status), NamesOnDisk(atEnd),
                                      live, preds, env,
                                      IF env.addOns /\ ~hist.raised
                                      THEN <<"appended", hist.record>> ELSE <<"none">>>>
    /\ pc' = "done"
    /\ now' = now + 1
    /\ UNCHANGED <<nWrites, policyFile, baseFile, currFile, ret, exitCode, driftCols,
                   ignoreArg, cmp, cmp2, call, seen>>

\* the validator is run again in the same workspace and the same environment
ValidateAgain ==
    /\ pc = "done"
    /\ cli[1] = "returned"
    /\ now < MaxRuns
    /\ pc' = "setup"
    /\ cli' = <<"again", cli[6]>>
    /\ UNCHANGED <<nWrites, policyFile, perfFile, shapFile, fairFile, baseFile, currFile,
                   gateFile, ret, exitCode, driftCols, ignoreArg, cmp, cmp2, call, seen,
                   reports, now>>

NextCli == WriteCliPolicy \/ ValidateMain \/ ValidateAgain \/ Reset

SpecCli == Init /\ [][NextCli]_vars

(***************************************************************************)
(* The validator of ops/policy_gate.py                                     *)
(***************************************************************************)
\* the failing-closed document run_policy_gate writes on a gate error
GateErrorResult ==
    [status |-> "fail", policy |-> PyStr(S_default), reasons |-> <<"Gate error">>]

\* run_policy_gate() of ops/policy_gate.py: the result file it leaves, given the
\* one already there; a SystemExit of the entry point is no Exception and ends
\* the interpreter
run_policy_gate_ops(gateModule, old, polf, pf, sf, ff, bf, cf) ==
    CASE gateModule.kind = "main_argv" -> [exited |-> TRUE, file |-> old]
      [] gateModule.kind = "run" ->
            [exited |-> FALSE,
             file |-> IF Exists(gateModule.writes) THEN gateModule.writes ELSE old]
      [] gateModule.kind = "main_noarg" ->
            CHOOSE g \in {IF r.raised THEN [exited |-> FALSE, file |-> Text(GateErrorResult)]
                          ELSE [exited |-> FALSE, file |-> Text(r.out)] :
                             r \in {main(polf, pf, sf, ff, bf, cf)}} : TRUE
      [] OTHER -> [exited |-> FALSE, file |-> Text(GateErrorResult)]

\* _gate_result() of ops/policy_gate.py: the status as the document holds it
_gate_result_ops(f) ==
    IF ~Exists(f)
    THEN [status |-> "fail", policy |-> PyStr(S_default),
          reasons |-> <<"Gate unavailable or error; failing closed.">>]
    ELSE IF f[1] # "text"
    THEN [status |-> "fail", policy |-> PyStr(S_default),
          reasons |-> <<"Gate parse error; failing closed.">>]
    ELSE LET raw == f[2]
         IN  [status |-> IF "status" \in DOMAIN raw /\ raw.status # "" THEN raw.status
                         ELSE IF "gate_status" \in DOMAIN raw /\ raw.gate_status # ""
                         THEN raw.gate_status
                         ELSE "fail",
              policy |-> IF "policy" \in DOMAIN raw THEN raw.policy ELSE PyStr(S_default),
              reasons |-> IF "reasons" \in DOMAIN raw THEN raw.reasons ELSE <<>>]

\* what the interpreter can import when this validator runs: its add-ons and the
\* SHAP stub are imported with the module itself
OpsEnvironments ==
    {[evalModule |-> e, shapStub |-> TRUE, gateModule |-> g, addOns |-> TRUE] :
        e \in BOOLEAN, g \in GateModules}

\* main(["--preds", "reports/predictions.csv"]) of ops/policy_gate.py, run from
\* the workspace root
OpsMain ==
    /\ pc = "setup"
    /\ now < MaxRuns
    /\ \E preds \in PredFiles,
          env \in (IF cli[1] = "again" THEN {cli[2]} ELSE OpsEnvironments) :
         \E perf \in {IF env.evalModule
                      THEN run_performance_metrics(_maybe_seed_predictions(preds), TRUE)
                      ELSE [raised |-> TRUE, json |-> Absent, csv |-> FALSE]} :
           LET pf == IF perf.raised THEN Text(PyDict(EmptyPerformance)) ELSE perf.json
               names1 == reports.names \cup OtherArtifacts(perf.csv)
           IN  \E g \in {run_policy_gate_ops(env.gateModule, gateFile, policyFile, pf,
                                             ShapStubFile, FairnessSummary, baseFile,
                                             currFile)} :
               \E hist \in {drift_history(reports.history, reports.live, pf, g.file, now + 1)} :
                 LET gate == _gate_result_ops(g.file)
                     status == IF StatusLower(gate.status) = "pass" THEN "PASS" ELSE "FAIL"
                     live == _write_live_validation(status, _perf_for_live(pf), gate)
                     atDigest == [live |-> reports.live, gate |-> g.file, perf |-> pf,
                                  fair |-> FairnessSummary, shap |-> ShapStubFile,
                                  names |-> names1 \cup MonitorFiles]
                     names2 == names1 \cup MonitorFiles \cup {"evidence_digest.json"}
                                 \cup (IF hist.raised THEN {} ELSE {"drift_history.json"})
                     atEnd == [atDigest EXCEPT !.live = Text(live), !.names = names2]
                 IN  /\ perfFile' = pf
                     /\ fairFile' = FairnessSummary
                     /\ shapFile' = ShapStubFile
                     /\ gateFile' = g.file
                     /\ reports' =
                          IF g.exited THEN [reports EXCEPT !.names = names1]
                          ELSE [live |-> Text(live), history |-> hist.file,
                                digest |-> Text(evidence_digest(atDigest)),
                                names |-> names2]
                     /\ cli' = IF g.exited
                               THEN <<"exited", 2,
                                      NamesOnDisk([atDigest EXCEPT !.names = names1]), env>>
                               ELSE <<"returned", ReturnCode(status), NamesOnDisk(atEnd),
                                      live, preds, env,
                                      IF hist.raised THEN <<"none">>
                                      ELSE <<"appended", hist.record>>>>
    /\ pc' = "done"
    /\ now' = now + 1
    /\ UNCHANGED <<nWrites, policyFile, baseFile, currFile, ret, exitCode, driftCols,
                   ignoreArg, cmp, cmp2, call, seen>>

NextOps == WriteCliPolicy \/ OpsMain \/ ValidateAgain \/ Reset

SpecOps == Init /\ [][NextOps]_vars

(***************************************************************************)
(* The policy validator (ops/policy_validator.py)                          *)
(***************************************************************************)
\* JSON-Schema types: a boolean is no number, a number without fraction is an integer
IsNumber(v) == v[1] = "num"
IsInteger(v) == v[1] = "num" /\ v[2] % 100 = 0

\* the errors of one property of a group against {"type": "number", "minimum":
\* lo, "maximum": hi}, none when the property is absent
NumberErrors(group, key, lo, hi) ==
    IF key \notin DOMAIN group[2] THEN {}
    ELSE IF ~IsNumber(group[2][key]) THEN {<<key, "type">>}
    ELSE (IF group[2][key][2] < lo THEN {<<key, "minimum">>} ELSE {})
         \cup (IF group[2][key][2] > hi THEN {<<key, "maximum">>} ELSE {})

\* the errors of the group under name: its type, its required keys, its properties
GroupErrors(policy, name) ==
    IF name \notin DOMAIN policy[2] THEN {}
    ELSE LET group == policy[2][name]
         IN  IF ~IsDict(group) THEN {<<name, "type">>}
             ELSE CASE name = "drift" ->
                         {<<name, "required", k>> : k \in {"psi_fail", "ks_fail"} \ DOMAIN group[2]}
                         \cup NumberErrors(group, "psi_fail", 0, 100)
                         \cup NumberErrors(group, "ks_fail", 0, 100)
                    [] name = "performance" ->
                         NumberErrors(group, "min_auroc", 0, 100)
                         \cup NumberErrors(group, "min_auprc", 0, 100)
                    [] name = "fairness" ->
                         {<<name, "required", k>> : k \in {"parity_gap_fail"} \ DOMAIN group[2]}
                         \cup NumberErrors(group, "parity_gap_fail", 0, 100)
                    [] name = "explainability" ->
                         {<<name, "required", k>> :
                             k \in {"require_shap_artifact"} \ DOMAIN group[2]}
                         \cup (IF "require_shap_artifact" \in DOMAIN group[2]
                                  /\ group[2]["require_shap_artifact"][1] # "bool"
                               THEN {<<"require_shap_artifact", "type">>} ELSE {})
                         \cup (IF "top_features_min" \notin DOMAIN group[2] THEN {}
                               ELSE IF ~IsInteger(group[2]["top_features_min"])
                               THEN {<<"top_features_min", "type">>}
                               ELSE IF group[2]["top_features_min"][2] < 100
                               THEN {<<"top_features_min", "minimum">>} ELSE {})

\* Draft202012Validator(POLICY_SCHEMA).iter_errors(policy)
iter_errors(policy) ==
    IF ~IsDict(policy) THEN {<<"<root>", "type">>}
    ELSE {<<"<root>", "required", k>> :
             k \in {"drift", "fairness", "explainability"} \ DOMAIN policy[2]}
         \cup UNION {GroupErrors(policy, name) :
                        name \in {"drift", "performance", "fairness", "explainability"}}

\* `key in group and group[key] <op> bound`: "violated", "ok", or the exception
\* Python raises (membership in None or a number, an ordering of a string or
\* None with a float)
SemanticRule(group, key, op, bound) ==
    IF group[1] \in {"list", "str"} THEN "ok"
    ELSE IF ~IsDict(group) THEN "TypeError"
    ELSE IF key \notin DOMAIN group[2] THEN "ok"
    ELSE LET v == group[2][key]
             x == IF v[1] = "bool" THEN (IF v[2] THEN 100 ELSE 0) ELSE v[2]
         IN  IF v[1] \notin {"num", "bool"} THEN "TypeError"
             ELSE IF (op = ">" /\ x > bound) \/ (op = "<" /\ x < bound) THEN "violated"
             ELSE "ok"

\* the four semantic rules in their order, then expl.get("require_shap_artifact")
SemanticChecks(policy) ==
    IF ~IsDict(policy) THEN [raised |-> TRUE, exc |-> "AttributeError", sem_ok |-> FALSE]
    ELSE LET rules == << SemanticRule(DictGet(policy, "drift", PyDict(EmptyDict)),
                                      "psi_fail", ">", 50),
                         SemanticRule(DictGet(policy, "drift", PyDict(EmptyDict)),
                                      "ks_fail", ">", 50),
                         SemanticRule(DictGet(policy, "performance", PyDict(EmptyDict)),
                                      "min_auroc", "<", 60),
                         SemanticRule(DictGet(policy, "fairness", PyDict(EmptyDict)),
                                      "parity_gap_fail", ">", 20) >>
             expl == DictGet(policy, "explainability", PyDict(EmptyDict))
         IN  IF \E i \in 1..4 : rules[i] = "TypeError"
             THEN [raised |-> TRUE, exc |-> "TypeError", sem_ok |-> FALSE]
             ELSE IF ~IsDict(expl)
             THEN [raised |-> TRUE, exc |-> "AttributeError", sem_ok |-> FALSE]
             ELSE [raised |-> FALSE, exc |-> "",
                   sem_ok |-> \A i \in 1..4 : rules[i] = "ok"]

\* "PASS" if (schema_ok and sem_ok) else "WARN" if schema_ok else "FAIL"
StatusLine(schema_ok, sem_ok) ==
    IF schema_ok /\ sem_ok THEN "PASS" ELSE IF schema_ok THEN "WARN" ELSE "FAIL"

\* validate_policy() called with the positional arguments args, on the policy
\* file polf, with or without the jsonschema package: its result, or the
\* exception it lets through (the function takes no parameter)
validate_policy(args, polf, installed) ==
    IF args # <<>> THEN [raised |-> TRUE, exc |-> "TypeError"]
    ELSE IF polf = Absent THEN [raised |-> TRUE, exc |-> "FileNotFoundError"]
    ELSE IF polf[1] # "text" THEN [raised |-> TRUE, exc |-> "YAMLError"]
    ELSE LET policy == IF Truthy(polf[2]) THEN polf[2] ELSE PyDict(EmptyDict)
             schema_ok == installed /\ iter_errors(policy) = {}
         IN  CHOOSE r \in {IF sem.raised THEN [raised |-> TRUE, exc |-> sem.exc]
                           ELSE [raised |-> FALSE, exc |-> "",
                                 status |-> StatusLine(schema_ok, sem.sem_ok),
                                 schema_validation |-> IF schema_ok THEN "OK"
                                                       ELSE "NOT_RUN_OR_FAILED",
                                 semantic_checks |-> IF sem.sem_ok THEN "OK"
                                                     ELSE "HAS_ISSUES"] :
                              sem \in {SemanticChecks(policy)}} : TRUE

\* the groups of a policy.yaml handed to the validator
ValidatorDriftGroups ==
    {Missing, PyNone} \cup
    {PyDict(Prune([psi_fail |-> p, ks_fail |-> k])) :
        p \in {Missing, PyNum(20), PyNum(60), PyNum(150), PyStr(S_abc)},
        k \in {Missing, PyNum(20), PyNum(60)}}

ValidatorPerfGroups ==
    {Missing, PyNone, PyDict(EmptyDict), PyDict([min_auroc |-> PyNum(50)]),
     PyDict([min_auroc |-> PyNum(75)])}

ValidatorFairGroups ==
    {Missing, PyDict(EmptyDict), PyDict([parity_gap_fail |-> PyNum(5)]),
     PyDict([parity_gap_fail |-> PyNum(30)])}

ValidatorExplGroups ==
    {Missing, PyNone, PyDict([require_shap_artifact |-> PyBool(TRUE)]),
     PyDict([require_shap_artifact |-> PyBool(FALSE)]),
     PyDict([require_shap_artifact |-> PyStr(S_abc)]),
     PyDict([require_shap_artifact |-> PyBool(TRUE), top_features_min |-> PyNum(0)])}

ValidatorPolicyFiles ==
    {Garbage, Text(PyNone), Text(PyList(<<PyStr(S_abc)>>))} \cup
    {Text(PyDict(Prune([drift |-> d, performance |-> p, fairness |-> f,
                        explainability |-> e]))) :
        d \in ValidatorDriftGroups, p \in ValidatorPerfGroups, f \in ValidatorFairGroups,
        e \in ValidatorExplGroups}

WriteValidatorPolicy ==
    /\ pc = "setup"
    /\ policyFile = Absent
    /\ \E f \in ValidatorPolicyFiles : policyFile' = f
    /\ UNCHANGED <<pc, nWrites, perfFile, shapFile, fairFile, baseFile, currFile, gateFile,
                   ret, exitCode, driftCols, ignoreArg, cmp, cmp2, call, seen, cli,
                   reports, now>>

\* python -m src.ops.policy_validator: exit code 2 on FAIL, 1 for an uncaught
\* exception, 0 otherwise
PolicyValidatorMain ==
    /\ pc = "setup"
    /\ \E installed \in BOOLEAN :
         \E res \in {validate_policy(<<>>, policyFile, installed)} :
           /\ call' = <<"policy_validator", installed, res>>
           /\ exitCode' = IF res.raised THEN 1 ELSE IF res.status = "FAIL" THEN 2 ELSE 0
    /\ pc' = "done"
    /\ UNCHANGED <<nWrites, policyFile, perfFile, shapFile, fairFile, baseFile, currFile,
                   gateFile, ret, driftCols, ignoreArg, cmp, cmp2, seen, cli, reports, now>>

\* the records test_policy_validator_unit.py hands to validate_policy
ObservedPerformances ==
    {[auroc |-> PyNum(a), ks_stat |-> PyNum(k)] : a \in {60, 70, 90}, k \in {5, 10, 20}}

ThresholdRecords == {[min_auroc |-> PyNum(70), min_ks |-> PyNum(10)]}

\* res = validate_policy(perf, policy), as the unit tests call it
CallValidatePolicy ==
    /\ pc = "setup"
    /\ \E perf \in ObservedPerformances, thresholds \in ThresholdRecords,
          installed \in BOOLEAN :
         call' = <<"validate_policy", perf, thresholds,
                   validate_policy(<<PyDict(perf), PyDict(thresholds)>>, policyFile, installed)>>
    /\ pc' = "done"
    /\ UNCHANGED <<nWrites, policyFile, perfFile, shapFile, fairFile, baseFile, currFile,
                   gateFile, ret, exitCode, driftCols, ignoreArg, cmp, cmp2, seen, cli,
                   reports, now>>

NextPolicy == WriteValidatorPolicy \/ PolicyValidatorMain \/ CallValidatePolicy \/ Reset

SpecPolicy == Init /\ [][NextPolicy]_vars

(***************************************************************************)
(* The trustworthy-audit validator (eval/validate_trustworthy_audit.py)    *)
(***************************************************************************)
\* (x.get(key) or {}) if isinstance(x, dict) else {}
GroupOrEmpty(x, key) ==
    IF IsDict(x) /\ Truthy(DictGet(x, key, PyNone)) THEN DictGet(x, key, PyNone)
    ELSE PyDict(EmptyDict)

\* get_num(d, key) on a dict: float(v), None when v is None or does not convert
get_num(d, key) ==
    LET v == DictGet(d, key, PyNone)
    IN  CASE v[1] = "num"  -> v
          [] v[1] = "bool" -> PyNum(IF v[2] THEN 100 ELSE 0)
          [] OTHER         -> PyNone

\* one threshold comparison of the checks: both numbers present and the
\* observed one beyond the threshold
Beyond(observed, op, threshold) ==
    /\ observed # PyNone /\ threshold # PyNone
    /\ IF op = "<" THEN observed[2] < threshold[2] ELSE observed[2] > threshold[2]

\* |x| of a number or None
AbsNum(x) == IF x = PyNone THEN x ELSE PyNum(IF x[2] < 0 THEN 0 - x[2] ELSE x[2])

\* int(v) if v is not None else None, None when v does not convert
IntOrNone(v) == IF v[1] \in {"num", "bool"} THEN PyInt(v) ELSE PyNone

\* check_performance, check_drift, check_fairness and check_explainability on
\* the four dicts of the live document: the violations they report
Violations(metrics, drift, fairness, explain, policy) ==
    LET ppol == GroupOrEmpty(policy, "performance")
        dpol == GroupOrEmpty(policy, "drift")
        fpol == GroupOrEmpty(policy, "fairness")
        xpol == GroupOrEmpty(policy, "explainability")
    IN  (IF Beyond(get_num(metrics, "auroc"), "<", get_num(ppol, "min_auroc"))
         THEN {"AUROC"} ELSE {})
        \cup (IF Beyond(get_num(metrics, "auprc"), "<", get_num(ppol, "min_auprc"))
              THEN {"AUPRC"} ELSE {})
        \cup (IF Beyond(get_num(metrics, "log_loss"), ">", get_num(ppol, "max_log_loss"))
              THEN {"log_loss"} ELSE {})
        \cup (IF Beyond(get_num(drift, "psi"), ">", get_num(dpol, "psi_fail"))
              THEN {"PSI"} ELSE {})
        \cup (IF Beyond(get_num(drift, "ks"), ">", get_num(dpol, "ks_fail"))
              THEN {"KS"} ELSE {})
        \cup (IF Beyond(AbsNum(get_num(fairness, "parity_gap")), ">",
                        get_num(fpol, "parity_gap_fail"))
              THEN {"parity_gap"} ELSE {})
        \cup (IF Truthy(DictGet(xpol, "require_shap_artifact", PyBool(FALSE)))
                 /\ ~Truthy(DictGet(explain, "shap_artifact_present", PyBool(FALSE)))
              THEN {"SHAP artifact"} ELSE {})
        \cup (IF Beyond(IntOrNone(DictGet(explain, "top_features_count", PyNone)), "<",
                        IntOrNone(DictGet(xpol, "top_features_min", PyNone)))
              THEN {"top_features_count"} ELSE {})

\* x.get(key, {}) or {} of the live document
SectionOrEmpty(live, key) ==
    IF Truthy(DictGet(live, key, PyNone)) THEN DictGet(live, key, PyNone)
    ELSE PyDict(EmptyDict)

\* die(): SystemExit(1)
die == [code |-> 1, result |-> "ERROR"]

\* main(argv) and raise SystemExit(main()): the exit code of the process and the
\* RESULT it prints; an uncaught exception ends the process with code 1
trust_audit_main(strict, yamlInstalled, polf, livef) ==
    LET policyFound == ~yamlInstalled \/ Exists(polf)
        policy == IF ~yamlInstalled \/ ~Exists(polf) THEN PyDict(EmptyDict)
                  ELSE IF Truthy(polf[2]) THEN polf[2] ELSE PyDict(EmptyDict)
    IN  IF yamlInstalled /\ Exists(polf) /\ polf[1] # "text" THEN die
        ELSE IF ~policyFound /\ strict THEN die
        ELSE IF ~Exists(livef) THEN (IF strict THEN die ELSE [code |-> 0, result |-> "SKIPPED"])
        ELSE IF livef[1] # "text" THEN die
        ELSE IF ~IsDict(livef[2]) THEN [code |-> 1, result |-> "AttributeError"]
        ELSE LET metrics == IF Truthy(DictGet(livef[2], "metrics", PyNone))
                            THEN DictGet(livef[2], "metrics", PyNone)
                            ELSE SectionOrEmpty(livef[2], "performance")
                 drift == SectionOrEmpty(livef[2], "drift")
                 fairness == SectionOrEmpty(livef[2], "fairness")
                 explain == SectionOrEmpty(livef[2], "explainability")
             IN  IF \E d \in {metrics, drift, fairness, explain} : ~IsDict(d)
                 THEN [code |-> 1, result |-> "AttributeError"]
                 ELSE IF \E k \in {"performance", "drift", "fairness", "explainability"} :
                            ~IsDict(GroupOrEmpty(policy, k))
                 THEN [code |-> 1, result |-> "AttributeError"]
                 ELSE IF Violations(metrics, drift, fairness, explain, policy) # {}
                 THEN (IF strict THEN [code |-> 1, result |-> "FAIL (strict)"]
                       ELSE [code |-> 0, result |-> "SOFT-FAIL (non-blocking)"])
                 ELSE [code |-> 0, result |-> "PASS"]

\* policy.yaml as the audit can find it
AuditPolicyFiles ==
    {Garbage, Text(PyNone), Text(PyList(<<PyStr(S_abc)>>)),
     Text(PyDict([performance |-> PyDict([min_auroc |-> PyNum(75)])])),
     Text(PyDict([performance |-> PyDict([min_auroc |-> PyNum(75)]),
                  drift |-> PyDict([psi_fail |-> PyNum(20), ks_fail |-> PyNum(20)]),
                  fairness |-> PyDict([parity_gap_fail |-> PyNum(5)]),
                  explainability |-> PyDict([require_shap_artifact |-> PyBool(TRUE),
                                             top_features_min |-> PyNum(200)])])),
     Text(PyDict([performance |-> PyStr(S_abc)]))}

\* reports/live_validation.json as the audit can find it
AuditLiveFiles ==
    {Garbage, Text(PyList(<<>>)), Text(PyDict(EmptyDict)),
     Text(PyDict([metrics |-> PyList(<<PyNum(90)>>)]))}
    \cup {Text(PyDict([performance |-> PyDict([auroc |-> a])])) :
             a \in {PyNone, PyNum(60), PyNum(90)}}
    \cup {Text(PyDict([metrics |-> PyDict([auroc |-> PyNum(90)]),
                       drift |-> PyDict([psi |-> PyNum(p)]),
                       fairness |-> PyDict([parity_gap |-> PyNum(g)]),
                       explainability |-> PyDict([shap_artifact_present |-> PyBool(s),
                                                  top_features_count |-> PyNum(500)])])) :
             p \in {5, 30}, g \in {-10, 2}, s \in BOOLEAN}

WriteAuditPolicy ==
    /\ pc = "setup"
    /\ policyFile = Absent
    /\ \E f \in AuditPolicyFiles : policyFile' = f
    /\ UNCHANGED <<pc, nWrites, perfFile, shapFile, fairFile, baseFile, currFile, gateFile,
                   ret, exitCode, driftCols, ignoreArg, cmp, cmp2, call, seen, cli,
                   reports, now>>

WriteAuditLive ==
    /\ pc = "setup"
    /\ reports.live = Absent
    /\ \E f \in AuditLiveFiles : reports' = [reports EXCEPT !.live = f]
    /\ UNCHANGED <<pc, nWrites, policyFile, perfFile, shapFile, fairFile, baseFile, currFile,
                   gateFile, ret, exitCode, driftCols, ignoreArg, cmp, cmp2, call, seen, cli,
                   now>>

\* python -m src.eval.validate_trustworthy_audit, with or without --strict (or
\* TRUST_AUDIT_STRICT), with or without PyYAML
TrustAuditMain ==
    /\ pc = "setup"
    /\ \E strict \in BOOLEAN, yamlInstalled \in BOOLEAN :
         \E r \in {trust_audit_main(strict, yamlInstalled, policyFile, reports.live)} :
           /\ call' = <<"trust_audit", strict, yamlInstalled, r.result>>
           /\ exitCode' = r.code
    /\ pc' = "done"
    /\ UNCHANGED <<nWrites, policyFile, perfFile, shapFile, fairFile, baseFile, currFile,
                   gateFile, ret, driftCols, ignoreArg, cmp, cmp2, seen, cli, reports, now>>

NextAudit == WriteAuditPolicy \/ WriteAuditLive \/ TrustAuditMain \/ Reset

SpecAudit == Init /\ [][NextAudit]_vars

(***************************************************************************)
(* The drift history on its own (ops/drift_history.py)                     *)
(***************************************************************************)
\* a record of an earlier run, the i-th of k, written before time 0
EarlierRecord(i, k) ==
    [ts |-> i - k, status |-> IF i % 2 = 0 THEN "PASS" ELSE "FAIL", auroc |-> PyNone,
     ks_stat |-> PyNone, min_auroc |-> PyNone, min_ks |-> PyNone, reasons |-> <<>>]

\* drift_history.json as earlier runs or other tools can have left it: not JSON,
\* a JSON object, or a list of up to MAX_RECORDS records
HistoryFiles ==
    {Garbage, Text(PyDict(EmptyDict))}
    \cup {Text(PyList([i \in 1..k |-> EarlierRecord(i, k)])) : k \in 0..MAX_RECORDS}

\* live_validation.json as the history run can find it
LiveFiles == {Garbage, Text([status |-> "PASS"]), Text([status |-> "fail"])}

\* policy_gate_result.json as the validators leave it: the fallback verdict of
\* validate_cli.run_policy_gate, and the failing-closed document of the
\* validator in ops/policy_gate.py
HistoryGateFiles ==
    {Text([status |-> "PASS", policy |-> PyDict([min_auroc |-> PyNum(70), min_ks |-> PyNum(10)]),
           reasons |-> <<>>]),
     Text([status |-> "fail", policy |-> PyStr(S_default), reasons |-> <<"Gate error">>])}

WriteGateResult ==
    /\ pc = "setup"
    /\ gateFile = Absent
    /\ \E f \in HistoryGateFiles : gateFile' = f
    /\ UNCHANGED <<pc, nWrites, policyFile, perfFile, shapFile, fairFile, baseFile, currFile,
                   ret, exitCode, driftCols, ignoreArg, cmp, cmp2, call, seen, cli, reports,
                   now>>

SeedHistory ==
    /\ pc = "setup"
    /\ reports.history = Absent
    /\ now = 0
    /\ \E f \in HistoryFiles : reports' = [reports EXCEPT !.history = f]
    /\ UNCHANGED <<pc, nWrites, policyFile, perfFile, shapFile, fairFile, baseFile, currFile,
                   gateFile, ret, exitCode, driftCols, ignoreArg, cmp, cmp2, call, seen, cli,
                   now>>

WriteLive ==
    /\ pc = "setup"
    /\ reports.live = Absent
    /\ \E f \in LiveFiles : reports' = [reports EXCEPT !.live = f]
    /\ UNCHANGED <<pc, nWrites, policyFile, perfFile, shapFile, fairFile, baseFile, currFile,
                   gateFile, ret, exitCode, driftCols, ignoreArg, cmp, cmp2, call, seen, cli,
                   now>>

\* python -m src.ops.drift_history: one run of main() in the workspace
HistoryMain ==
    /\ pc = "setup"
    /\ now < MaxRuns
    /\ \E hist \in {drift_history(reports.history, reports.live, perfFile, gateFile, now + 1)} :
         /\ reports' = [reports EXCEPT !.history = hist.file,
                                       !.names = IF hist.raised THEN @
                                                 ELSE @ \cup {"drift_history.json"}]
         /\ call' = <<"history", reports.history, hist.raised, hist.record>>
    /\ now' = now + 1
    /\ UNCHANGED <<pc, nWrites, policyFile, perfFile, shapFile, fairFile, baseFile, currFile,
                   gateFile, ret, exitCode, driftCols, ignoreArg, cmp, cmp2, seen, cli>>

NextHistory == SeedHistory \/ WriteLive \/ WriteGateResult \/ HistoryMain

SpecHistory == Init /\ [][NextHistory]_vars

(***************************************************************************)
(* Properties                                                              *)
(***************************************************************************)
Written == gateFile[1] = "text"
Ran == pc = "done" /\ ret[1] # "none"
Returned == ret[1] = "returned"
NChecks == 7

CheckName(i) ==
    << "drift.psi", "drift.ks", "performance.auroc", "performance.auprc",
       "fairness.parity_gap", "explainability.shap_artifact_present",
       "explainability.top_features_min" >>[i]

CheckOp(i) == << "<", "<", ">=", ">=", "<=", "==", ">=" >>[i]

ObservedField(obs, i) ==
    CASE i = 1 -> obs.max_psi
      [] i = 2 -> obs.max_ks
      [] i = 3 -> obs.auroc
      [] i = 4 -> obs.auprc
      [] i = 5 -> obs.parity_gap
      [] i = 6 -> obs.shap_artifact_present
      [] i = 7 -> obs.top_features_detected

\* C1: in every result the gate writes, the status is FAIL iff at least one check
\* has result FAIL and is PASS otherwise; checks that SKIP never make it FAIL.
C1_StatusFailIffCheckFails ==
    Written =>
        LET o == gateFile[2]
        IN  /\ o.status \in {"PASS", "FAIL"}
            /\ (o.status = "FAIL") <=> (\E i \in 1..Len(o.checks) : o.checks[i].result = "FAIL")
            /\ (\A i \in 1..Len(o.checks) : o.checks[i].result \in {"PASS", "SKIP"})
                  => o.status = "PASS"

\* a written result that passes although some of its checks were skipped
C1_Witness ==
    /\ Written
    /\ gateFile[2].status = "PASS"
    /\ \E i \in 1..Len(gateFile[2].checks) : gateFile[2].checks[i].result = "SKIP"
    /\ \E i \in 1..Len(gateFile[2].checks) : gateFile[2].checks[i].result = "PASS"

\* C2: for each of the seven checks, a null observed value gives result SKIP,
\* whatever the operator; a check that is PASS or FAIL has a non-null value.
C2_NullValueIsSkip ==
    Written =>
        LET o == gateFile[2]
        IN  /\ Len(o.checks) = NChecks
            /\ \A i \in 1..NChecks :
                  /\ o.checks[i].name = CheckName(i)
                  /\ (ObservedField(o.observed, i) = PyNone \/ o.checks[i].value = PyNone)
                        => o.checks[i].result = "SKIP"
                  /\ o.checks[i].result \in {"PASS", "FAIL"}
                        => ObservedField(o.observed, i) # PyNone

\* a result whose null values sit under three different operators
C2_Witness ==
    /\ Written
    /\ gateFile[2].checks[1].value = PyNone /\ gateFile[2].checks[1].result = "SKIP"
    /\ gateFile[2].checks[3].value = PyNone /\ gateFile[2].checks[3].result = "SKIP"
    /\ gateFile[2].checks[5].value = PyNone /\ gateFile[2].checks[5].result = "SKIP"

\* C3 (as claimed): with every upstream input absent, the run writes a result in
\* which every check is SKIP and the status is PASS.
C3_AllAbsentAllSkipPass ==
    ( /\ Ran
      /\ policyFile = Absent /\ perfFile = Absent /\ shapFile = Absent /\ fairFile = Absent
      /\ baseFile = Absent /\ currFile = Absent )
    => /\ Written
       /\ \A i \in 1..NChecks : gateFile[2].checks[i].result = "SKIP"
       /\ gateFile[2].status = "PASS"

\* C4: main returns 0 exactly when the status it wrote is PASS and 1 exactly when
\* it is FAIL; the process exits with that code.
C4_ReturnCodeMatchesStatus ==
    Returned =>
        /\ Written
        /\ \/ ret[2] = 0 /\ gateFile[2].status = "PASS"
           \/ ret[2] = 1 /\ gateFile[2].status = "FAIL"
        /\ exitCode = ret[2]

\* a run that wrote FAIL and returned 1
C4_Witness == Returned /\ ret[2] = 1 /\ Written /\ gateFile[2].status = "FAIL"

\* what the claim says check i does with a value and a threshold
ClaimedHolds(i, value, thr) ==
    CASE i \in {1, 2}    -> value[2] < thr[2]
      [] i \in {3, 4, 7} -> value[2] >= thr[2]
      [] i = 5           -> value[2] <= thr[2]
      [] i = 6           -> value[2] = thr[2]

\* C5: a check with a non-null value is PASS iff its fixed operator holds between
\* value and threshold and FAIL otherwise: "<" for drift.psi and drift.ks, ">=" for
\* auroc, auprc and top_features_min, "<=" for parity_gap, "==" for
\* shap_artifact_present.
C5_OperatorDecidesResult ==
    Written =>
        \A i \in 1..NChecks :
            LET c == gateFile[2].checks[i]
            IN  /\ c.op = CheckOp(i)
                /\ c.value[1] \in {"num", "bool"} =>
                      c.result = IF ClaimedHolds(i, c.value, c.threshold) THEN "PASS" ELSE "FAIL"

\* a drift value equal to its threshold fails, a performance value equal to its
\* threshold passes
C5_Witness ==
    /\ Written
    /\ gateFile[2].checks[2].value = gateFile[2].checks[2].threshold
    /\ gateFile[2].checks[2].result = "FAIL"
    /\ gateFile[2].checks[3].value = gateFile[2].checks[3].threshold
    /\ gateFile[2].checks[3].result = "PASS"

\* the threshold the claim names: the policy's value under group and key, else the default
ClaimedThreshold(f, group, key, default) ==
    IF /\ f[1] = "text"
       /\ f[2][1] = "dict"
       /\ group \in DOMAIN f[2][2]
       /\ f[2][2][group][1] = "dict"
       /\ key \in DOMAIN f[2][2][group][2]
    THEN f[2][2][group][2][key]
    ELSE default

\* C6: each check's threshold is the policy's value under its group and key when
\* present and the default (0.20, 0.20, 0.75, 0.20, 0.05, true, 2) otherwise, with
\* or without a policy file; an overridden drift.psi_fail = 0.01 fails a larger max_psi.
C6_ThresholdFromPolicyOrDefault ==
    Written =>
        LET c == gateFile[2].checks
        IN  /\ c[1].threshold = ClaimedThreshold(policyFile, "drift", "psi_fail", PyNum(20))
            /\ c[2].threshold = ClaimedThreshold(policyFile, "drift", "ks_fail", PyNum(20))
            /\ c[3].threshold = ClaimedThreshold(policyFile, "performance", "min_auroc", PyNum(75))
            /\ c[4].threshold = ClaimedThreshold(policyFile, "performance", "min_auprc", PyNum(20))
            /\ c[5].threshold = ClaimedThreshold(policyFile, "fairness", "parity_gap_fail", PyNum(5))
            /\ c[6].threshold =
                  ClaimedThreshold(policyFile, "explainability", "require_shap_artifact", PyBool(TRUE))
            /\ c[7].threshold =
                  ClaimedThreshold(policyFile, "explainability", "top_features_min", PyNum(200))
            /\ ( /\ ClaimedThreshold(policyFile, "drift", "psi_fail", PyNum(20)) = PyNum(1)
                 /\ c[1].value[1] = "num"
                 /\ c[1].value[2] > 1 ) => c[1].result = "FAIL"

\* psi_fail overridden to 0.01 fails a max_psi that the default would pass
C6_Witness ==
    /\ Written
    /\ gateFile[2].checks[1].threshold = PyNum(1)
    /\ gateFile[2].checks[1].value[1] = "num"
    /\ gateFile[2].checks[1].value[2] > 1 /\ gateFile[2].checks[1].value[2] < 20
    /\ gateFile[2].checks[1].result = "FAIL"
    /\ gateFile[2].checks[2].threshold = PyNum(20)

\* absent, unreadable, or not the expected record (a JSON object)
ArtifactUnusable(f) == f[1] # "text" \/ f[2][1] # "dict"

\* a JSON object the gate's readers handle
ArtifactRecord(f) ==
    /\ f[1] = "text"
    /\ f[2][1] = "dict"
    /\ DictGet(f[2], "n_top_features", PyNone) # PyNaN

\* C7 (as claimed): an upstream artifact that is absent or does not parse into the
\* expected record leaves its observed fields null, and the run completes and
\* writes its result.
C7_UnusableArtifactNeverAborts ==
    ( /\ Ran
      /\ policyFile = Absent /\ baseFile = Absent /\ currFile = Absent
      /\ \A f \in {perfFile, fairFile, shapFile} : ArtifactUnusable(f) \/ ArtifactRecord(f) )
    => /\ Returned
       /\ Written
       /\ ArtifactUnusable(perfFile) =>
             /\ gateFile[2].observed.auroc = PyNone
             /\ gateFile[2].observed.auprc = PyNone
             /\ gateFile[2].observed.log_loss = PyNone
       /\ ArtifactUnusable(fairFile) => gateFile[2].observed.parity_gap = PyNone
       /\ ArtifactUnusable(shapFile) => gateFile[2].observed.top_features_detected = PyNone

\* C8 (as claimed): a policy file that exists and does not parse ends the run with
\* an exit code that is neither 0 (PASS) nor 1 (FAIL).
C8_MalformedPolicyDistinctExit ==
    (Ran /\ policyFile = Garbage) => exitCode >= 2

\* C9 (as claimed): with a dataset file absent or structurally invalid the gate
\* does not abort: max_psi and max_ks are null, both drift checks SKIP, and the
\* other checks are in the written result.
C9_UnusableDatasetSkipsDrift ==
    ( /\ Ran
      /\ baseFile[1] # "text" \/ currFile[1] # "text"
      /\ policyFile = Absent /\ perfFile = Absent /\ shapFile = Absent /\ fairFile = Absent )
    => /\ Returned
       /\ Written
       /\ gateFile[2].observed.max_psi = PyNone
       /\ gateFile[2].observed.max_ks = PyNone
       /\ Len(gateFile[2].checks) = NChecks
       /\ gateFile[2].checks[1].result = "SKIP"
       /\ gateFile[2].checks[2].result = "SKIP"

RECURSIVE NamesOf(_)
NamesOf(frame) == IF frame = <<>> THEN <<>> ELSE <<Head(frame).name>> \o NamesOf(Tail(frame))

IgnoreListOf(arg) == IF arg[1] = "list" THEN arg[2] ELSE <<>>

\* the claim's selection: the baseline columns, in baseline order, that (a) the
\* current dataset has, (b) the ignore list does not name, case-insensitively,
\* (c) do not look like an identifier or a time, (d) are numeric in both datasets
ClaimedCols(base, curr, ignore) ==
    LET Qualifies(col) ==
            /\ \E j \in 1..Len(curr) : curr[j].name = col.name
            /\ ~ \E j \in 1..Len(ignore) : Lower(ignore[j]) = Lower(col.name)
            /\ ~ EndsWith(Lower(col.name), S_id)
            /\ ~ Contains(Lower(col.name), S_time)
            /\ ~ Contains(Lower(col.name), S_date)
            /\ col.numeric
            /\ \A j \in 1..Len(curr) : curr[j].name = col.name => curr[j].numeric
    IN  NamesOf(SelectSeq(base, Qualifies))

\* the names left after dropping label, y_true, y_pred and y_score (lower-cased)
WithoutLabelColumns(names) ==
    LET Kept(n) == Lower(n) \notin {S_label, S_y_true, S_y_pred, S_y_score}
    IN  SelectSeq(names, Kept)

ExampleFrame ==
    << Col(N_subject_id, TRUE, X_base), Col(N_admittime, TRUE, X_base),
       Col(N_feat1, TRUE, X_base), Col(S_label, TRUE, X_base) >>

\* C10 (as claimed): compare_dataframes and the gate's _drift_summary both compare
\* exactly the columns of ClaimedCols.
C10_SelectedExactlyAsClaimed ==
    /\ cmp[1] = "summary" =>
          cmp[2].cols = ClaimedCols(FrameOf(baseFile), FrameOf(currFile), IgnoreListOf(ignoreArg))
    /\ (Ran /\ Returned /\ baseFile[1] = "text" /\ currFile[1] = "text") =>
          driftCols = ClaimedCols(FrameOf(baseFile), FrameOf(currFile), IgnoreListOf(ignoreArg))

\* C10 (amended): compare_dataframes compares exactly the columns of ClaimedCols;
\* the gate's _drift_summary compares those columns less the ones whose lower-cased
\* name is label, y_true, y_pred or y_score, named by the ignore list or not. Columns
\* subject_id, admittime, feat1, label with ignore list {label} select exactly feat1.
C10_SelectedColumns ==
    /\ cmp[1] = "summary" =>
          cmp[2].cols = ClaimedCols(FrameOf(baseFile), FrameOf(currFile), IgnoreListOf(ignoreArg))
    /\ (Ran /\ Returned /\ baseFile[1] = "text" /\ currFile[1] = "text") =>
          driftCols = WithoutLabelColumns(
              ClaimedCols(FrameOf(baseFile), FrameOf(currFile), IgnoreListOf(ignoreArg)))
    /\ compare_dataframes(ExampleFrame, ExampleFrame, PyList(<<S_label>>)).cols = <<N_feat1>>
    /\ GateCols(ExampleFrame, ExampleFrame, LowerAll(<<S_label>>)) = <<N_feat1>>

\* the gate ran on datasets that share a numeric Label column the ignore list does
\* not name, and compared another column
C10_Witness ==
    /\ Ran /\ Returned
    /\ baseFile[1] = "text" /\ currFile[1] = "text"
    /\ ignoreArg = PyNone
    /\ driftCols # <<>>
    /\ \E i \in 1..Len(baseFile[2]) : baseFile[2][i].name = N_Label /\ baseFile[2][i].numeric
    /\ \E i \in 1..Len(currFile[2]) : currFile[2][i].name = N_Label /\ currFile[2][i].numeric

(***************************************************************************)
(* Properties of the statistics routines (SpecStats)                       *)
(***************************************************************************)
\* the rows of the last compare_dataframes call
RowsOf(c) == IF c[1] = "summary" THEN c[2].rows ELSE <<>>

\* C11: in every row compare_dataframes produces, drift_flag is true iff the row's
\* psi is at least 0.10 or its ks is at least 0.10, a null statistic counting as
\* false; the thresholds of the policy play no part.
C11_FlagIsFixedHeuristic ==
    \A i \in 1..Len(RowsOf(cmp)) :
        LET r == RowsOf(cmp)[i]
        IN  r.drift_flag <=> \/ (r.psi # PyNaN /\ r.psi[2] >= 10)
                             \/ (r.ks # PyNaN /\ r.ks[2] >= 10)

\* under a policy that fails drift only from 0.50 on, one feature is flagged with
\* both statistics below 0.50 and another feature is not flagged
C11_Witness ==
    /\ policyFile = LenientDriftPolicy
    /\ \E i \in 1..Len(RowsOf(cmp)) :
          LET r == RowsOf(cmp)[i]
          IN  r.drift_flag /\ r.psi[2] < 50 /\ r.ks[2] < 50
    /\ \E i \in 1..Len(RowsOf(cmp)) : ~RowsOf(cmp)[i].drift_flag

\* the finite values of one statistic over the rows
FiniteStats(rows, stat) ==
    {(IF stat = "psi" THEN rows[i].psi ELSE rows[i].ks)[2] :
        i \in {j \in 1..Len(rows) : (IF stat = "psi" THEN rows[j].psi ELSE rows[j].ks)[1] = "num"}}

\* the claimed aggregate: the largest of the finite values, null without one
ClaimedMax(S) == IF S = {} THEN PyNone ELSE PyNum(SetMax(S))

\* the features of the last gate run that have data on both sides
GateFeatures ==
    {i \in 1..Len(driftCols) :
        /\ ~NoFinite(ColumnOf(baseFile[2], driftCols[i]).sample)
        /\ ~NoFinite(ColumnOf(currFile[2], driftCols[i]).sample)}

\* C12: max_psi of a DriftSummary is the largest finite psi of its rows and null
\* when no row has one (no row at all included), and the same for max_ks; a row
\* holds a finite number or null for each statistic. The gate's aggregation over
\* its selected features gives the same.
C12_MaxOverFiniteValues ==
    /\ \A c \in {cmp, call} :
          (c[1] \in {"summary", "DriftSummary"}) =>
              /\ c[2].max_psi = ClaimedMax(FiniteStats(c[2].rows, "psi"))
              /\ c[2].max_ks = ClaimedMax(FiniteStats(c[2].rows, "ks"))
    /\ \A i \in 1..Len(RowsOf(cmp)) :
          /\ RowsOf(cmp)[i].psi[1] \in {"num", "nan"}
          /\ RowsOf(cmp)[i].ks[1] \in {"num", "nan"}
    /\ (Written /\ baseFile[1] = "text" /\ currFile[1] = "text") =>
          /\ gateFile[2].observed.max_psi =
                ClaimedMax({_psi(Finite(ColumnOf(baseFile[2], driftCols[i]).sample),
                                 Finite(ColumnOf(currFile[2], driftCols[i]).sample),
                                 DefaultBins) : i \in GateFeatures})
          /\ gateFile[2].observed.max_ks =
                ClaimedMax({ks_2samp(Finite(ColumnOf(baseFile[2], driftCols[i]).sample),
                                     Finite(ColumnOf(currFile[2], driftCols[i]).sample)) :
                               i \in GateFeatures})

\* a summary of two rows whose larger psi comes first, one row without a ks
C12_Witness ==
    /\ call[1] = "DriftSummary"
    /\ Len(call[2].rows) = 2
    /\ call[2].rows[1].psi = PyNum(30) /\ call[2].rows[2].psi = PyNum(5)
    /\ call[2].rows[1].ks = PyNaN
    /\ call[2].max_psi = PyNum(30)

\* C13 (as claimed): for two non-empty classes, ties included, _ks_stat returns the
\* two-sample KS statistic: the largest distance between the empirical CDFs of the
\* positive and of the negative scores over the distinct values.
C13_SweepIsKolmogorovSmirnov ==
    (call[1] = "ks_stat" /\ call[3] # PyNone) =>
        LET pos == ScoresOf(call[2], 1)
            neg == ScoresOf(call[2], 0)
        IN  call[3][2] * KsFraction(pos, neg)[2] = KsFraction(pos, neg)[1] * call[3][3]

\* C14: the KS statistic is null when either sample is empty and otherwise lies in
\* [0, 1]: for _ks_stat between the two classes, and for the ks of every row of
\* compare_dataframes, which has rows only for features with data on both sides.
C14_KsNullOrInUnitInterval ==
    /\ call[1] = "ks_stat" =>
          IF ScoresOf(call[2], 1) = <<>> \/ ScoresOf(call[2], 0) = <<>>
          THEN call[3] = PyNone
          ELSE /\ call[3] # PyNone
               /\ 0 <= call[3][2] /\ call[3][2] <= call[3][3]
    /\ \A i \in 1..Len(RowsOf(cmp)) :
          LET r == RowsOf(cmp)[i]
          IN  /\ r.ks[1] = "num" /\ 0 <= r.ks[2] /\ r.ks[2] <= 100
              /\ ~NoFinite(ColumnOf(baseFile[2], r.feature).sample)
              /\ ~NoFinite(ColumnOf(currFile[2], r.feature).sample)

\* two non-empty classes whose scores are fully separated: a statistic of 1
C14_Witness ==
    /\ call[1] = "ks_stat"
    /\ Len(call[2]) = MaxLen
    /\ call[3] # PyNone
    /\ call[3][2] = call[3][3]

\* C15: _psi returns 0.0 when either sample is empty after the non-finite values
\* are removed, and for every input it returns a finite number, zero-variance
\* expected samples included.
C15_PsiIsFinite ==
    call[1] = "psi" =>
        /\ (NoFinite(call[2]) \/ NoFinite(call[3])) => call[5] = 0
        /\ call[5] # np_nan
        /\ call[5] >= 0

\* an expected sample without variance against an actual sample that differs
C15_Witness ==
    /\ call[1] = "psi"
    /\ Len(Finite(call[2])) >= 2
    /\ Cardinality(Values(Finite(call[2]))) = 1
    /\ call[5] > 0

\* C16: for a non-empty sample s and any bins >= 1, _psi(s, s, bins) is exactly 0.
C16_PsiOfSameSampleIsZero ==
    (call[1] = "psi" /\ call[2] = call[3] /\ ~NoFinite(call[2])) => call[5] = 0

\* a sample of distinct values, whose extremes fall outside the bin edges,
\* compared with itself under one bin
C16_Witness ==
    /\ call[1] = "psi"
    /\ call[2] = call[3]
    /\ Cardinality(Values(Finite(call[2]))) >= 3
    /\ call[4] = 1
    /\ call[5] = 0

Swap(checks, i, j) ==
    [k \in 1..Len(checks) |-> IF k = i THEN checks[j] ELSE IF k = j THEN checks[i]
                                                              ELSE checks[k]]

\* checks rotated left by n positions
Rotate(checks, n) ==
    [k \in 1..Len(checks) |-> checks[((k - 1 + n) % Len(checks)) + 1]]

\* checks in the opposite order
Reverse(checks) == [k \in 1..Len(checks) |-> checks[Len(checks) + 1 - k]]

\* C18: every result the gate writes holds exactly seven checks, named drift.psi,
\* drift.ks, performance.auroc, performance.auprc, fairness.parity_gap,
\* explainability.shap_artifact_present, explainability.top_features_min in this
\* order, and the status computed from the checks in another order (any two
\* exchanged, any rotation, the reverse order) is the status written.
C18_SevenChecksOrderIrrelevant ==
    Written =>
        LET checks == gateFile[2].checks
        IN  /\ Len(checks) = NChecks
            /\ \A i \in 1..NChecks : checks[i].name = CheckName(i)
            /\ \A i, j \in 1..NChecks :
                   StatusOf(Swap(checks, i, j)) = gateFile[2].status
            /\ \A n \in 1..(NChecks - 1) :
                   StatusOf(Rotate(checks, n)) = gateFile[2].status
            /\ StatusOf(Reverse(checks)) = gateFile[2].status

\* a written FAIL result whose first check passes, whose last check fails and
\* which holds a skipped check in between
C18_Witness ==
    /\ Written
    /\ gateFile[2].status = "FAIL"
    /\ gateFile[2].checks[1].result = "PASS"
    /\ gateFile[2].checks[NChecks].result = "FAIL"
    /\ \E i \in 2..(NChecks - 1) : gateFile[2].checks[i].result = "SKIP"
    /\ \E i \in 2..(NChecks - 1) : gateFile[2].checks[i].result = "PASS"

\* C19: a process reading policy_gate_result.json while the gate runs finds no
\* file or a complete document (the previous one or the new one), never an
\* empty or partly written file.
C19_ReaderSeesCompleteDocument ==
    seen[1] = "read" => (seen[2] = Absent \/ seen[2][1] = "text")

\* C20: after every run of the validator's main that returns, the reports
\* directory holds performance_metrics.json, performance_metrics.csv,
\* api_fairness_metrics.csv, api_fairness_report.md, fairness_summary.json,
\* policy_gate_result.json and live_validation.json, and live_validation.json
\* holds a status that is PASS or FAIL, a performance entry and a gate entry.
C20_ArtifactsAfterEveryRun ==
    cli[1] = "returned" =>
        /\ RequiredArtifacts \subseteq cli[3]
        /\ cli[4].status \in {"PASS", "FAIL"}
        /\ {"performance", "gate"} \subseteq DOMAIN cli[4]

(***************************************************************************)
(* Properties of the validator CLI (SpecCli)                               *)
(***************************************************************************)
\* the status entry of a parsed result document, "" without one
StatusEntry(f) == IF f[1] = "text" /\ "status" \in DOMAIN f[2] THEN f[2].status ELSE ""

\* the gate_status entry of a parsed result document, "" without one
GateStatusEntry(f) ==
    IF f[1] = "text" /\ "gate_status" \in DOMAIN f[2] THEN f[2].gate_status ELSE ""

GateRun == main(policyFile, perfFile, shapFile, fairFile, baseFile, currFile)

\* C28 (as claimed): a final status PASS implies that the gate module was invoked
\* and that its verdict was PASS; when the gate's verdict is FAIL, or the module
\* cannot be imported, has no entry point, or raises, the final status is FAIL.
C28_PassOnlyOnGateVerdict ==
    cli[1] = "returned" =>
        LET kind == cli[6].gateModule.kind
        IN  /\ cli[4].status = "PASS" =>
                  \/ kind = "run"
                  \/ kind = "main_noarg" /\ ~GateRun.raised /\ GateRun.out.status = "PASS"
            /\ kind \in {"unavailable", "no_entry", "raises"} => cli[4].status = "FAIL"
            /\ (kind = "main_noarg" /\ GateRun.raised) => cli[4].status = "FAIL"
            /\ (kind = "main_noarg" /\ ~GateRun.raised /\ GateRun.out.status = "FAIL")
                  => cli[4].status = "FAIL"

\* C29 (as claimed): the record a validator run appends to the drift history
\* carries the final status of that run, the status of the live_validation.json
\* the run writes; it is never empty and never the status of an earlier run.
C29_RecordCarriesFinalStatus ==
    (cli[1] = "returned" /\ cli[7][1] = "appended") =>
        /\ cli[7][2].status = cli[4].status
        /\ cli[7][2].status # ""
        /\ reports.history[2][2][Len(reports.history[2][2])] = cli[7][2]

\* the reports directory as the state holds it
ReportsOnDisk ==
    [live |-> reports.live, gate |-> gateFile, perf |-> perfFile, fair |-> fairFile,
     shap |-> shapFile, names |-> reports.names]

\* C30 (as claimed): at the end of a run, the existence flag and the SHA256 the
\* evidence digest records for each report file it lists, live_validation.json
\* in particular, are those of the file on disk.
C30_DigestMatchesDisk ==
    (cli[1] = "returned" /\ cli[6].addOns) =>
        \A n \in REPORT_FILES :
            reports.digest[2][n] = _file_info(FileNamed(n, ReportsOnDisk))

\* the records of a history file, none when it is missing, unparseable or no list
RecordsOf(f) == IF f[1] = "text" /\ f[2][1] = "list" THEN f[2][2] ELSE <<>>

\* C27 (as claimed): the drift history never holds more than 200 records; a run
\* appends exactly one record, which becomes the last, keeps the order of the
\* records it found and drops only the oldest of them when the window overflows;
\* a history file that is missing, unparseable or no list counts as empty.
C27_RollingWindow ==
    /\ Len(RecordsOf(reports.history)) <= 200
    /\ call[1] = "history" =>
          /\ ~call[3]
          /\ LET before == RecordsOf(call[2])
                 after == RecordsOf(reports.history)
                 full == Append(before, call[4])
                 dropped == Len(full) - Len(after)
             IN  /\ reports.history[1] = "text" /\ reports.history[2][1] = "list"
                 /\ Len(after) = IF Len(before) < 200 THEN Len(before) + 1 ELSE 200
                 /\ after[Len(after)] = call[4]
                 /\ call[4].ts = now
                 /\ \A i \in 1..Len(after) : after[i] = full[dropped + i]
                 /\ call[2][1] # "text" => after = <<call[4]>>
                 /\ (call[2][1] = "text" /\ call[2][2][1] # "list") => after = <<call[4]>>

\* the environment of the validator run that just ended
RunEnvironment == IF cli[1] = "returned" THEN cli[6] ELSE cli[4]

\* the gate module could not be imported, has no entry point, or its entry
\* point raised
GateFailed ==
    \/ RunEnvironment.gateModule.kind \in {"unavailable", "no_entry", "raises", "main_argv"}
    \/ RunEnvironment.gateModule.kind = "main_noarg" /\ GateRun.raised

\* C22 (as claimed): in the validator of ops/policy_gate.py, when the gate module
\* cannot be imported, exposes none of evaluate_policy_gate, main and run, or its
\* entry point raises, policy_gate_result.json is written with status "fail" and
\* a "Gate error" reason, the final status is FAIL and the exit code is 1.
C22_GateErrorFailsClosed ==
    (cli[1] \in {"returned", "exited"} /\ GateFailed) =>
        /\ gateFile = Text(GateErrorResult)
        /\ cli[1] = "returned"
        /\ cli[4].status = "FAIL"
        /\ cli[2] = 1

(***************************************************************************)
(* Properties of the policy validator (SpecPolicy)                         *)
(***************************************************************************)
\* C23 (as claimed): validate_policy(perf, policy) returns status PASS and an
\* empty reasons list when auroc >= min_auroc and ks_stat >= min_ks, and status
\* FAIL with a reason for each violated metric (AUROC, KS) otherwise.
C23_ValidatePolicyComparesThresholds ==
    call[1] = "validate_policy" =>
        LET perf == call[2]
            thr == call[3]
            res == call[4]
            violated == (IF perf.auroc[2] < thr.min_auroc[2] THEN {"AUROC"} ELSE {})
                        \cup (IF perf.ks_stat[2] < thr.min_ks[2] THEN {"KS"} ELSE {})
        IN  /\ ~res.raised
            /\ res.status = IF violated = {} THEN "PASS" ELSE "FAIL"
            /\ "reasons" \in DOMAIN res
            /\ \A m \in violated : \E i \in 1..Len(res.reasons) : res.reasons[i] = m
            /\ violated = {} => res.reasons = <<>>

\* a semantic rule of the validator is violated by a policy whose entries have
\* the types the schema asks for
SemanticViolation(policy) ==
    LET Over(name, key, bound) ==
            /\ name \in DOMAIN policy[2] /\ IsDict(policy[2][name])
            /\ key \in DOMAIN policy[2][name][2]
            /\ policy[2][name][2][key][1] = "num"
            /\ policy[2][name][2][key][2] > bound
        Under(name, key, bound) ==
            /\ name \in DOMAIN policy[2] /\ IsDict(policy[2][name])
            /\ key \in DOMAIN policy[2][name][2]
            /\ policy[2][name][2][key][1] = "num"
            /\ policy[2][name][2][key][2] < bound
    IN  /\ IsDict(policy)
        /\ \/ Over("drift", "psi_fail", 50) \/ Over("drift", "ks_fail", 50)
           \/ Under("performance", "min_auroc", 60) \/ Over("fairness", "parity_gap_fail", 20)

\* C26 (as claimed): for a policy.yaml that parses, the validator's status is PASS
\* iff schema validation ran without errors and no semantic rule is violated,
\* WARN iff schema validation passed and a semantic rule is violated, and FAIL
\* iff schema validation reported an error or could not be run; the process
\* exits with code 2 exactly when the status is FAIL and with 0 otherwise.
C26_StatusFromSchemaAndSemantics ==
    (call[1] = "policy_validator" /\ policyFile[1] = "text") =>
        LET policy == IF Truthy(policyFile[2]) THEN policyFile[2] ELSE PyDict(EmptyDict)
            schemaPassed == call[2] /\ iter_errors(policy) = {}
            res == call[3]
        IN  /\ ~res.raised
            /\ res.status = "PASS" <=> (schemaPassed /\ ~SemanticViolation(policy))
            /\ res.status = "WARN" <=> (schemaPassed /\ SemanticViolation(policy))
            /\ res.status = "FAIL" <=> ~schemaPassed
            /\ exitCode = IF res.status = "FAIL" THEN 2 ELSE 0

\* C24 (as claimed): in soft mode the trustworthy-audit validator exits with code
\* 0 whether policy.yaml and reports/live_validation.json are absent, malformed,
\* or well-formed with or without policy violations; exit code 1 occurs only in
\* strict mode.
C24_SoftModeNeverFails ==
    call[1] = "trust_audit" =>
        /\ ~call[2] => exitCode = 0
        /\ exitCode = 1 => call[2]

\* the pairs of the last compute_metrics call that parse
ParsedPairs == SelectSeq(call[2], LAMBDA r : r # BadRow)

\* every score labelled 1 is greater than every score labelled 0, and both
\* classes are present
PerfectlySeparated(pairs) ==
    /\ \E i \in 1..Len(pairs) : pairs[i][1] = 1
    /\ \E i \in 1..Len(pairs) : pairs[i][1] = 0
    /\ \A i, j \in 1..Len(pairs) :
          (pairs[i][1] = 1 /\ pairs[j][1] = 0) => pairs[i][2] > pairs[j][2]

====
